---- MODULE Spec2Model ----
(***************************************************************************)
(* RadioEngine (radio_engine.cpp): per-device playback state, the device   *)
(* snapshot store, the track sequencer, the backend fallback chain and the *)
(* worker-thread command serializer.                                       *)
(*                                                                         *)
(* Everything guarded by mutex_ is one record, eng, whose fields carry the *)
(* names of the members of RadioEngine.  Every ...Locked function is an    *)
(* operator from that record (and the outcomes of the OS calls it makes)   *)
(* to the record after the call.  Two specifications use these operators:  *)
(*   Spec        the closures as the worker (or an inline caller) runs     *)
(*               them, one after the other, with the maintenance tick and  *)
(*               the stream connection attempt in steps;                   *)
(*   SpecThreads the caller threads, mutex_, cv_, commandQueue_ and the    *)
(*               worker loop around the same closures.                     *)
(***************************************************************************)
EXTENDS Integers, Sequences, FiniteSets, TLC

\* ------------------------------------------------------------------ bounds
MaxDeviceId == 1          \* device ids are 0..MaxDeviceId
NumStationSongs == 2      \* songs of the station channel
MaxCursor == 2            \* cap on transitionIndex_ / adIndex_ (size_t counters)
MaxCandidates == 2        \* candidate URLs one playStreamLocked call tries

Devices == 0..MaxDeviceId

\* ------------------------------------------------- constants of the source
kDefaultVolumePercent == 100
kMaximumVolumePercent == 200
kDefaultVolumeStepPercent == 5
kMinimumFadeGap == 1
kCommandWaitTimeout == 5000

\* ---------------------------------------------------------------- helpers
Put(f, k, v) == [x \in (DOMAIN f) \cup {k} |-> IF x = k THEN v ELSE f[x]]

Clamp(v, lo, hi) == IF v < lo THEN lo ELSE IF v > hi THEN hi ELSE v

\* std::lround(n / m) for n >= 0, m > 0
RoundDiv(n, m) == ((2 * n) + m) \div (2 * m)


\* floor(sqrt(n)) by Newton's iteration from x
RECURSIVE ISqrtFrom(_, _)
ISqrtFrom(n, x) ==
    IF n = 0 THEN 0
    ELSE IF (x + (n \div x)) \div 2 >= x THEN x
    ELSE ISqrtFrom(n, (x + (n \div x)) \div 2)

ISqrt(n) == ISqrtFrom(n, n)

\* ------------------------------------------------------------ the catalog
\* What scanLibraryLocked finds on disk and in the INI: two playlist folders
\* (Mix, Chill), three station folders (FM: songs, one transition, one ad; AM:
\* three songs, two transitions, two ads; Talk: songs only) and three
\* stream_station lines, declared in the order Live, Jazz, News.  Paths are
\* <<channel, kind, index>>; NoPath is the empty path.
NoPath == <<>>
NoKey == ""
PlaylistKey == "playlist/mix"
StationKey == "station/fm"
AmKey == "station/am"
TalkKey == "station/talk"
StreamKey == "stream/live"
ChillKey == "playlist/chill"
JazzKey == "stream/jazz"
NewsKey == "stream/news"

SongPaths(key, n) == [i \in 1..n |-> <<key, "song", i - 1>>]

PlaylistEntry ==
    [key |-> PlaylistKey, displayName |-> "Mix", type |-> "Playlist",
     isStream |-> FALSE, streamUrl |-> "",
     songs |-> SongPaths(PlaylistKey, 2), transitions |-> <<>>, ads |-> <<>>]

StationEntry ==
    [key |-> StationKey, displayName |-> "FM", type |-> "Station",
     isStream |-> FALSE, streamUrl |-> "",
     songs |-> SongPaths(StationKey, NumStationSongs),
     transitions |-> << <<StationKey, "transition", 0>> >>,
     ads |-> << <<StationKey, "ad", 0>> >>]

AmEntry ==
    [key |-> AmKey, displayName |-> "AM", type |-> "Station",
     isStream |-> FALSE, streamUrl |-> "",
     songs |-> SongPaths(AmKey, 3),
     transitions |-> << <<AmKey, "transition", 0>>, <<AmKey, "transition", 1>> >>,
     ads |-> << <<AmKey, "ad", 0>>, <<AmKey, "ad", 1>> >>]

TalkEntry ==
    [key |-> TalkKey, displayName |-> "Talk", type |-> "Station",
     isStream |-> FALSE, streamUrl |-> "",
     songs |-> SongPaths(TalkKey, 3), transitions |-> <<>>, ads |-> <<>>]

StreamEntry ==
    [key |-> StreamKey, displayName |-> "Live", type |-> "Station",
     isStream |-> TRUE, streamUrl |-> "http://live/stream",
     songs |-> <<>>, transitions |-> <<>>, ads |-> <<>>]

ChillEntry ==
    [key |-> ChillKey, displayName |-> "Chill", type |-> "Playlist",
     isStream |-> FALSE, streamUrl |-> "",
     songs |-> SongPaths(ChillKey, 2), transitions |-> <<>>, ads |-> <<>>]

JazzEntry ==
    [key |-> JazzKey, displayName |-> "Jazz", type |-> "Station",
     isStream |-> TRUE, streamUrl |-> "http://jazz/listen.pls",
     songs |-> <<>>, transitions |-> <<>>, ads |-> <<>>]

NewsEntry ==
    [key |-> NewsKey, displayName |-> "News", type |-> "Station",
     isStream |-> TRUE, streamUrl |-> "http://news/live.mp3",
     songs |-> <<>>, transitions |-> <<>>, ads |-> <<>>]

\* config_.streamStations: the keys of the stream_station lines of the INI,
\* in the order of the lines.
IniStreamOrder == <<StreamKey, JazzKey, NewsKey>>

DiskCatalog ==
    [k \in {PlaylistKey, ChillKey, StationKey, AmKey, TalkKey, StreamKey, JazzKey,
            NewsKey} |->
        CASE k = PlaylistKey -> PlaylistEntry
          [] k = ChillKey -> ChillEntry
          [] k = StationKey -> StationEntry
          [] k = AmKey -> AmEntry
          [] k = TalkKey -> TalkEntry
          [] k = StreamKey -> StreamEntry
          [] k = JazzKey -> JazzEntry
          [] k = NewsKey -> NewsEntry]

\* lookupChannelLocked: the names a caller can pass to changePlaylist, with
\* the key each resolves to ("" when nothing matches).
lookupChannelLocked(e, channelName) ==
    LET key == CASE channelName = "mix" -> PlaylistKey
                 [] channelName = "fm" -> StationKey
                 [] channelName = "am" -> AmKey
                 [] channelName = "talk" -> TalkKey
                 [] channelName = "live" -> StreamKey
                 [] channelName = "chill" -> ChillKey
                 [] channelName = "jazz" -> JazzKey
                 [] channelName = "news" -> NewsKey
                 [] OTHER -> NoKey
    IN IF key \in DOMAIN e.channels_ THEN key ELSE NoKey

\* --------------------------------------------------------------- positions
Origin == [x |-> 0, y |-> 0, z |-> 0]
FarEast == [x |-> 6000, y |-> 0, z |-> 0]
East == [x |-> 4500, y |-> 0, z |-> 0]

\* ------------------------------------------------------------- DeviceState
NoFadeOverride ==
    [enabled |-> FALSE, minDistance |-> 0, maxDistance |-> 0, panDistance |-> 0]

\* volumeGain is kept in hundredths (1.0F is 100).
DefaultDeviceState ==
    [selectedKey |-> NoKey, mode |-> "None", state |-> "Stopped",
     currentTrackPath |-> NoPath,
     songIndex |-> 0, transitionIndex |-> 0, adIndex |-> 0, songsSinceAd |-> 0,
     previousWasSong |-> FALSE,
     emitterPosition |-> Origin, playerPosition |-> Origin,
     lastVolume |-> -1, lastLeftVolume |-> -1, lastRightVolume |-> -1,
     panControlsAvailable |-> TRUE, panUnavailableLogged |-> FALSE,
     trackStartTime |-> 0, trackStartValid |-> FALSE,
     fadeOverride |-> NoFadeOverride, volumeGain |-> 100]

\* The engine right after RadioEngine::RadioEngine.  Two fields are history,
\* not members: lastNonSong[d] (the track started last on device d was an ad
\* or a transition) and backToBack (some ad or transition was started right
\* after another one on the same device).
InitialEngine ==
    [channels_ |-> <<>>, streamOrderKeys_ |-> <<>>,
     deviceStates_ |-> <<>>, currentDeviceId_ |-> 0,
     selectedKey_ |-> NoKey, mode_ |-> "None", state_ |-> "Stopped",
     currentTrackPath_ |-> NoPath,
     songIndex_ |-> 0, transitionIndex_ |-> 0, adIndex_ |-> 0, songsSinceAd_ |-> 0,
     previousWasSong_ |-> FALSE,
     emitterPosition_ |-> Origin, playerPosition_ |-> Origin,
     lastVolume_ |-> -1, lastLeftVolume_ |-> -1, lastRightVolume_ |-> -1,
     panControlsAvailable_ |-> TRUE, panUnavailableLogged_ |-> FALSE,
     trackStartTime_ |-> 0, trackStartValid_ |-> FALSE,
     backend_ |-> "None",
     osHandle |-> "none", osVolume |-> <<-1, -1>>,
     lastNonSong |-> [d \in Devices |-> FALSE], backToBack |-> FALSE]

makeCurrentDeviceStateLocked(e) ==
    LET known == e.currentDeviceId_ \in DOMAIN e.deviceStates_
    IN [selectedKey |-> e.selectedKey_, mode |-> e.mode_, state |-> e.state_,
        currentTrackPath |-> e.currentTrackPath_,
        songIndex |-> e.songIndex_, transitionIndex |-> e.transitionIndex_,
        adIndex |-> e.adIndex_, songsSinceAd |-> e.songsSinceAd_,
        previousWasSong |-> e.previousWasSong_,
        emitterPosition |-> e.emitterPosition_, playerPosition |-> e.playerPosition_,
        lastVolume |-> e.lastVolume_, lastLeftVolume |-> e.lastLeftVolume_,
        lastRightVolume |-> e.lastRightVolume_,
        panControlsAvailable |-> e.panControlsAvailable_,
        panUnavailableLogged |-> e.panUnavailableLogged_,
        trackStartTime |-> e.trackStartTime_,
        trackStartValid |-> e.trackStartValid_,
        fadeOverride |-> IF known THEN e.deviceStates_[e.currentDeviceId_].fadeOverride
                         ELSE NoFadeOverride,
        volumeGain |-> IF known THEN e.deviceStates_[e.currentDeviceId_].volumeGain
                       ELSE 100]

\* applyDeviceStateLocked without the two positions.
applyWithoutPositions(e, st) ==
    [e EXCEPT !.selectedKey_ = st.selectedKey, !.mode_ = st.mode, !.state_ = st.state,
              !.currentTrackPath_ = st.currentTrackPath,
              !.songIndex_ = st.songIndex, !.transitionIndex_ = st.transitionIndex,
              !.adIndex_ = st.adIndex, !.songsSinceAd_ = st.songsSinceAd,
              !.previousWasSong_ = st.previousWasSong,
              !.lastVolume_ = st.lastVolume, !.lastLeftVolume_ = st.lastLeftVolume,
              !.lastRightVolume_ = st.lastRightVolume,
              !.panControlsAvailable_ = st.panControlsAvailable,
              !.panUnavailableLogged_ = st.panUnavailableLogged,
              !.trackStartTime_ = st.trackStartTime,
              !.trackStartValid_ = st.trackStartValid]

applyDeviceStateLocked(e, st) ==
    [e EXCEPT !.selectedKey_ = st.selectedKey, !.mode_ = st.mode, !.state_ = st.state,
              !.currentTrackPath_ = st.currentTrackPath,
              !.songIndex_ = st.songIndex, !.transitionIndex_ = st.transitionIndex,
              !.adIndex_ = st.adIndex, !.songsSinceAd_ = st.songsSinceAd,
              !.previousWasSong_ = st.previousWasSong,
              !.emitterPosition_ = st.emitterPosition,
              !.playerPosition_ = st.playerPosition,
              !.lastVolume_ = st.lastVolume, !.lastLeftVolume_ = st.lastLeftVolume,
              !.lastRightVolume_ = st.lastRightVolume,
              !.panControlsAvailable_ = st.panControlsAvailable,
              !.panUnavailableLogged_ = st.panUnavailableLogged,
              !.trackStartTime_ = st.trackStartTime,
              !.trackStartValid_ = st.trackStartValid]

syncCurrentDeviceStateLocked(e) ==
    [e EXCEPT !.deviceStates_ = Put(@, e.currentDeviceId_, makeCurrentDeviceStateLocked(e))]

ensureDeviceStateLocked(e, deviceId) ==
    IF deviceId \in DOMAIN e.deviceStates_ THEN e
    ELSE [e EXCEPT !.deviceStates_ = Put(@, deviceId, DefaultDeviceState)]

\* stopPlaybackDeviceLocked.  osHandle is the OS playback handle that is
\* really open ("mf": the IMFPMediaPlayer, "ds": the filter graph, "mci": the
\* RadioSFSE alias); the branch taken depends on backend_ and on the handle.
stopPlaybackDeviceLocked(e, closeDevice) ==
    LET handle ==
          IF ~closeDevice THEN e.osHandle
          ELSE IF e.backend_ = "MediaFoundationStream" /\ e.osHandle = "mf" THEN "none"
          ELSE IF e.backend_ = "DirectShowStream" /\ e.osHandle = "ds" THEN "none"
          ELSE IF e.osHandle = "mci" THEN "none"
          ELSE e.osHandle
    IN [e EXCEPT !.osHandle = handle,
                 !.osVolume = IF handle = "none" THEN <<-1, -1>> ELSE @,
                 !.backend_ = IF closeDevice THEN "None" ELSE @]

\* The parts of switchToDeviceLocked: the previous device gives up the
\* handle (e1 is the engine after the first sync) ...
releaseDeviceLocked(e1) ==
    IF e1.state_ \in {"Playing", "Paused"}
    THEN syncCurrentDeviceStateLocked(
             [stopPlaybackDeviceLocked(e1, TRUE)
                 EXCEPT !.state_ = "Stopped", !.trackStartValid_ = FALSE])
    ELSE e1

\* ... the snapshot of the new device becomes the live members (e3 is the
\* engine with currentDeviceId_ set and the snapshot ensured) ...
loadDeviceLocked(e3) == applyDeviceStateLocked(e3, e3.deviceStates_[e3.currentDeviceId_])

\* ... and is never live before a command starts it.
forceStoppedLocked(e4) ==
    IF e4.state_ # "Stopped"
    THEN [e4 EXCEPT !.state_ = "Stopped", !.trackStartValid_ = FALSE]
    ELSE e4

enterDeviceLocked(e2, deviceId) ==
    forceStoppedLocked(
        loadDeviceLocked(
            ensureDeviceStateLocked([e2 EXCEPT !.currentDeviceId_ = deviceId], deviceId)))

\* switchToDeviceLocked without the stop of the device that held the handle.
switchWithoutStop(e, deviceId) ==
    IF deviceId = e.currentDeviceId_ THEN ensureDeviceStateLocked(e, deviceId)
    ELSE loadDeviceLocked(
             ensureDeviceStateLocked(
                 [syncCurrentDeviceStateLocked(e) EXCEPT !.currentDeviceId_ = deviceId],
                 deviceId))

switchToDeviceLocked(e, deviceId) ==
    IF deviceId = e.currentDeviceId_ THEN ensureDeviceStateLocked(e, deviceId)
    ELSE enterDeviceLocked(releaseDeviceLocked(syncCurrentDeviceStateLocked(e)), deviceId)


\* ------------------------------------------------------------------ state
VARIABLES
    eng,                      \* everything mutex_ guards (see InitialEngine)
    config_,                  \* Config, as loadConfig read it from the INI
    playInterruptRequested_,  \* std::atomic<bool>
    wk,                       \* what the thread that runs closures is doing
    target,                   \* the deviceId argument of the latest call
    superseded,               \* what each superseded device was when it lost the handle
    seen,                     \* history: the latest closure or tick that ran
    workerRunning_, stopWorker_, workerThreadId_, commandQueue_,
    mutexOwner,               \* the thread that holds mutex_
    workerPc,                 \* where the worker thread is in workerLoop
    current,                  \* the closure the worker took from commandQueue_
    callers,                  \* where each caller thread is in its call
    nextTicket                \* tickets number the closures in enqueue order

\* ------------------------------------------------------- fade / pan levels
distanceLocked(e) ==
    ISqrt(((e.playerPosition_.x - e.emitterPosition_.x)
              * (e.playerPosition_.x - e.emitterPosition_.x))
          + ((e.playerPosition_.y - e.emitterPosition_.y)
              * (e.playerPosition_.y - e.emitterPosition_.y))
          + ((e.playerPosition_.z - e.emitterPosition_.z)
              * (e.playerPosition_.z - e.emitterPosition_.z)))

\* FadeVolume with a curve that rises between minDist and maxDist.
FadeVolumeRising(distance, minDist, maxDist, gain) ==
    IF distance <= minDist THEN Clamp(gain * 10, 0, 1000)
    ELSE IF distance >= maxDist THEN 0
    ELSE Clamp(RoundDiv((distance - minDist) * (distance - minDist) * gain * 10,
                        (maxDist - minDist) * (maxDist - minDist)), 0, 1000)

\* The fade curve of updateFadeVolumeLocked: the volume, 0..1000, at a
\* distance, for a gain in hundredths.  The curve is ((b - a) / b)^2 with
\* a = distance - minDist and b = maxDist - minDist.
FadeVolume(distance, minDist, maxDist, gain) ==
    IF distance <= minDist THEN Clamp(gain * 10, 0, 1000)
    ELSE IF distance >= maxDist THEN 0
    ELSE Clamp(RoundDiv((maxDist - distance) * (maxDist - distance) * gain * 10,
                        (maxDist - minDist) * (maxDist - minDist)), 0, 1000)

\* The pan curve, tabulated at pan = -1, 0, 1 (cos and sin of 0, pi/4, pi/2);
\* the emitter positions of the model produce no other pan.  dx is the
\* emitter's x minus the player's.
PanLevels(volume, dx, panDist) ==
    IF ~(config_.enableSpatialPan /\ panDist > kMinimumFadeGap)
    THEN <<volume, volume, volume>>
    ELSE CASE dx >= panDist -> <<volume, 0, volume>>
           [] -dx >= panDist -> <<volume, volume, 0>>
           [] dx = 0 -> <<volume, RoundDiv(volume * 707107, 1000000),
                          RoundDiv(volume * 707107, 1000000)>>

\* The three levels updateFadeVolumeLocked computes before it talks to the
\* backend: <<volume, leftVolume, rightVolume>>, each in 0..1000.
FadeLevels(e, device) ==
    IF device.fadeOverride.enabled
    THEN PanLevels(FadeVolume(distanceLocked(e), device.fadeOverride.minDistance,
                              device.fadeOverride.maxDistance,
                              Clamp(device.volumeGain, 0, 200)),
                   e.emitterPosition_.x - e.playerPosition_.x,
                   device.fadeOverride.panDistance)
    ELSE PanLevels(FadeVolume(distanceLocked(e), config_.minFadeDistance,
                              config_.maxFadeDistance, Clamp(device.volumeGain, 0, 200)),
                   e.emitterPosition_.x - e.playerPosition_.x,
                   config_.panDistance)

RememberLevels(e, volume, left, right) ==
    [e EXCEPT !.lastVolume_ = volume, !.lastLeftVolume_ = left, !.lastRightVolume_ = right]

\* The levels reach the OS handle and are remembered.
SetLevels(e, volume, left, right) ==
    RememberLevels([e EXCEPT !.osVolume = <<left, right>>], volume, left, right)

\* updateFadeVolumeLocked once the levels lv are computed.  vol is the outcome
\* of the volume calls: "ok", "panfail" (setaudio left/right refused, scalar
\* setaudio accepted) or "fail" (every call refused).
applyLevelsLocked(e1, lv, vol) ==
    IF lv[1] = e1.lastVolume_ /\ lv[2] = e1.lastLeftVolume_ /\ lv[3] = e1.lastRightVolume_
    THEN e1
    ELSE IF e1.backend_ = "MediaFoundationStream"
    THEN IF e1.osHandle # "mf" \/ vol = "fail" THEN e1
         ELSE SetLevels(e1, lv[1], lv[1], lv[1])
    ELSE IF e1.backend_ = "DirectShowStream"
    THEN IF e1.osHandle # "ds" THEN RememberLevels(e1, lv[1], lv[1], lv[1])
         ELSE IF vol = "fail" THEN e1
         ELSE SetLevels(e1, lv[1], lv[1], lv[1])
    ELSE IF config_.enableSpatialPan /\ e1.panControlsAvailable_
    THEN IF vol = "ok" THEN SetLevels(e1, lv[1], lv[2], lv[3])
         ELSE IF vol = "fail"
         THEN [e1 EXCEPT !.panControlsAvailable_ = FALSE, !.panUnavailableLogged_ = TRUE]
         ELSE SetLevels([e1 EXCEPT !.panControlsAvailable_ = FALSE,
                                   !.panUnavailableLogged_ = TRUE], lv[1], lv[1], lv[1])
    ELSE IF vol = "fail" THEN e1
         ELSE SetLevels(e1, lv[1], lv[1], lv[1])

fadeCurrentDeviceLocked(e1, vol) ==
    applyLevelsLocked(e1, FadeLevels(e1, e1.deviceStates_[e1.currentDeviceId_]), vol)

updateFadeVolumeLocked(e, vol) ==
    IF e.state_ # "Playing" THEN e
    ELSE fadeCurrentDeviceLocked(ensureDeviceStateLocked(e, e.currentDeviceId_), vol)

\* -------------------------------------------------------------- sequencer
Chan(e) == e.channels_[e.selectedKey_]
HasChan(e) == e.selectedKey_ \in DOMAIN e.channels_

\* A chooseCurrentTrackLocked that goes back to the first song whenever the
\* cursor is past the last one.
chooseCurrentTrackWrapping(e) ==
    IF ~HasChan(e) THEN NoPath
    ELSE IF Len(Chan(e).songs) = 0 THEN NoPath
    ELSE IF e.songIndex_ >= Len(Chan(e).songs) THEN Chan(e).songs[1]
    ELSE Chan(e).songs[e.songIndex_ + 1]

\* std::optional<path>: NoPath stands for std::nullopt.
chooseCurrentTrackLocked(e) ==
    IF ~HasChan(e) THEN NoPath
    ELSE IF Len(Chan(e).songs) = 0 THEN NoPath
    ELSE IF e.mode_ = "Playlist" \/ Chan(e).type = "Playlist"
    THEN IF e.songIndex_ >= Len(Chan(e).songs)
         THEN IF ~config_.loopPlaylist THEN NoPath ELSE Chan(e).songs[1]
         ELSE Chan(e).songs[e.songIndex_ + 1]
    ELSE IF e.songIndex_ >= Len(Chan(e).songs) THEN Chan(e).songs[1]
    ELSE Chan(e).songs[e.songIndex_ + 1]

\* An ad test that waits one song longer.
playAdLate(ch, since) ==
    Len(ch.ads) # 0 /\ config_.adIntervalSongs > 0 /\ since > config_.adIntervalSongs

\* const bool playAd of advanceAndChooseNextTrackLocked: since is songsSinceAd_
\* after its increment.
playAd(ch, since) ==
    Len(ch.ads) # 0 /\ config_.adIntervalSongs > 0 /\ since >= config_.adIntervalSongs

\* [e |-> the engine with the cursor advanced, track |-> the chosen path]
advanceAndChooseNextTrackLocked(e) ==
    IF ~HasChan(e) THEN [e |-> e, track |-> NoPath]
    ELSE IF Len(Chan(e).songs) = 0 THEN [e |-> e, track |-> NoPath]
    ELSE
    LET ch == Chan(e)
        nextSong == (e.songIndex_ + 1) % Len(ch.songs)
        song == [e |-> [e EXCEPT !.songIndex_ = nextSong, !.previousWasSong_ = TRUE],
                 track |-> ch.songs[nextSong + 1]]
    IN IF e.mode_ = "Playlist" \/ ch.type = "Playlist"
       THEN IF e.songIndex_ + 1 >= Len(ch.songs)
            THEN IF ~config_.loopPlaylist
                 THEN [e |-> [e EXCEPT !.songIndex_ = @ + 1], track |-> NoPath]
                 ELSE [e |-> [e EXCEPT !.songIndex_ = 0], track |-> ch.songs[1]]
            ELSE [e |-> [e EXCEPT !.songIndex_ = @ + 1],
                  track |-> ch.songs[e.songIndex_ + 2]]
       ELSE IF e.previousWasSong_
       THEN LET since == e.songsSinceAd_ + 1
            IN IF playAd(ch, since)
               THEN [e |-> [e EXCEPT !.songsSinceAd_ = 0, !.adIndex_ = @ + 1,
                                     !.previousWasSong_ = FALSE],
                     track |-> ch.ads[(e.adIndex_ % Len(ch.ads)) + 1]]
               ELSE IF Len(ch.transitions) # 0
               THEN [e |-> [e EXCEPT !.songsSinceAd_ = since, !.transitionIndex_ = @ + 1,
                                     !.previousWasSong_ = FALSE],
                     track |-> ch.transitions[(e.transitionIndex_ % Len(ch.transitions)) + 1]]
               ELSE [e |-> [song.e EXCEPT !.songsSinceAd_ = since], track |-> song.track]
       ELSE song

\* ------------------------------------------------------- local file start
\* A failed start that keeps the name of the track it replaced.
SilencedKeepsTrack(e) ==
    [e EXCEPT !.state_ = "Stopped",
              !.lastVolume_ = -1, !.lastLeftVolume_ = -1, !.lastRightVolume_ = -1,
              !.trackStartValid_ = FALSE]

\* The tail every failed start shares (playPathLocked, playStreamLocked,
\* updateTrackLocked).
Silenced(e) ==
    [e EXCEPT !.state_ = "Stopped", !.currentTrackPath_ = NoPath,
              !.lastVolume_ = -1, !.lastLeftVolume_ = -1, !.lastRightVolume_ = -1,
              !.trackStartValid_ = FALSE]

\* The successful end of playPathLocked (e1 is the engine after the stop).
\* seen.now is what std::chrono::steady_clock::now() reads, in milliseconds.
startedPathLocked(e1, filePath, backend, handle, vol) ==
    updateFadeVolumeLocked(
        [e1 EXCEPT !.currentTrackPath_ = filePath, !.backend_ = backend,
                   !.state_ = "Playing",
                   !.trackStartTime_ = seen.now, !.trackStartValid_ = TRUE,
                   !.osHandle = handle, !.osVolume = <<-1, -1>>,
                   !.backToBack = @ \/ (filePath[2] # "song"
                                         /\ e1.lastNonSong[e1.currentDeviceId_]),
                   !.lastNonSong[e1.currentDeviceId_] = (filePath[2] # "song")], vol)

\* playPathLocked after its stopPlaybackDeviceLocked.  o.open is what the OS
\* does with the file: "mci" (MCI open and play succeed), "noplay" (open
\* succeeds, play fails), "mf" (MCI open fails, the Media Foundation fallback
\* starts), "none" (both fail).  o.intr is playInterruptRequested_ as
\* startMediaFoundationStreamLocked reads it.
openPathLocked(e1, filePath, o) ==
    IF o.open = "mci"
    THEN [e |-> startedPathLocked(e1, filePath, "MCI", "mci", o.vol), ret |-> "true"]
    ELSE IF o.open = "mf" /\ ~o.intr
    THEN [e |-> startedPathLocked(e1, filePath, "MediaFoundationStream", "mf", o.vol),
          ret |-> "true"]
    ELSE [e |-> Silenced(e1), ret |-> "false"]

playPathLocked(e, filePath, o) ==
    openPathLocked(stopPlaybackDeviceLocked(e, TRUE), filePath, o)

\* playStreamLocked up to the call of resolvePlayableStreamUrl; the rest of
\* it is the connection attempt, which the stream actions take in steps.
playStreamLocked(e) == [e |-> stopPlaybackDeviceLocked(e, TRUE), ret |-> "stream"]

clearStreamState(e) == [Silenced(e) EXCEPT !.backend_ = "None", !.osHandle = "none",
                                           !.osVolume = <<-1, -1>>]

\* The end of startCurrentLocked, forwardLocked and rewindLocked: the track
\* the cursor of e1 designates is played (a stream is connected to).
startChosenLocked(e1, o) ==
    IF Chan(e1).isStream THEN playStreamLocked(e1)
    ELSE IF chooseCurrentTrackLocked(e1) = NoPath THEN [e |-> e1, ret |-> "false"]
    ELSE playPathLocked(e1, chooseCurrentTrackLocked(e1), o)

\* The same, after the log line that names the track: path::string() throws
\* on a file name outside the ANSI code page (o.throws).
logAndStartChosenLocked(e1, o) ==
    IF chooseCurrentTrackLocked(e1) = NoPath THEN [e |-> e1, ret |-> "false"]
    ELSE IF o.throws THEN [e |-> e1, ret |-> "throw"]
    ELSE playPathLocked(e1, chooseCurrentTrackLocked(e1), o)

startCurrentLocked(e, mode, resetPosition, o) ==
    IF ~HasChan(e) THEN [e |-> e, ret |-> "false"]
    ELSE IF Len(Chan(e).songs) = 0 /\ ~Chan(e).isStream THEN [e |-> e, ret |-> "false"]
    ELSE
    startChosenLocked(
        [e EXCEPT !.mode_ = mode,
                  !.songIndex_ = IF resetPosition THEN 0 ELSE @,
                  !.transitionIndex_ = IF resetPosition THEN 0 ELSE @,
                  !.adIndex_ = IF resetPosition THEN 0 ELSE @,
                  !.songsSinceAd_ = IF resetPosition THEN 0 ELSE @,
                  !.previousWasSong_ = IF mode = "Station" THEN TRUE ELSE @], o)

\* resumeLocked / pauseLocked: o.ctl is the outcome of the backend's
\* resume / pause call.
resumeLocked(e, o) ==
    IF e.state_ # "Paused" THEN [e |-> e, ret |-> "false"]
    ELSE IF e.backend_ = "MediaFoundationStream" /\ e.osHandle # "mf"
    THEN [e |-> e, ret |-> "false"]
    ELSE IF e.backend_ = "DirectShowStream" /\ e.osHandle # "ds"
    THEN [e |-> e, ret |-> "false"]
    ELSE IF ~o.ctl THEN [e |-> e, ret |-> "false"]
    ELSE [e |-> [e EXCEPT !.state_ = "Playing"], ret |-> "true"]

\* A pauseLocked that does not look at state_.
pauseAnyState(e, o) ==
    IF ~o.ctl THEN [e |-> e, ret |-> "false"]
    ELSE [e |-> [e EXCEPT !.state_ = "Paused"], ret |-> "true"]

pauseLocked(e, o) ==
    IF e.state_ # "Playing" THEN [e |-> e, ret |-> "false"]
    ELSE IF e.backend_ = "MediaFoundationStream" /\ e.osHandle # "mf"
    THEN [e |-> e, ret |-> "false"]
    ELSE IF e.backend_ = "DirectShowStream" /\ e.osHandle # "ds"
    THEN [e |-> e, ret |-> "false"]
    ELSE IF ~o.ctl THEN [e |-> e, ret |-> "false"]
    ELSE [e |-> [e EXCEPT !.state_ = "Paused"], ret |-> "true"]

\* forwardLocked.  o.throws: the log line's path::string() conversion of the
\* chosen track throws (a file name outside the ANSI code page).
forwardLocked(e, o) ==
    IF e.selectedKey_ = NoKey THEN [e |-> e, ret |-> "false"]
    ELSE IF ~HasChan(e) THEN [e |-> e, ret |-> "false"]
    ELSE IF Chan(e).isStream THEN playStreamLocked(e)
    ELSE IF Len(Chan(e).songs) = 0 THEN [e |-> e, ret |-> "false"]
    ELSE
    LET station == e.mode_ = "Station" \/ Chan(e).type = "Station"
    IN logAndStartChosenLocked(
           [e EXCEPT !.songIndex_ = (@ + 1) % Len(Chan(e).songs),
                     !.previousWasSong_ = IF station THEN TRUE ELSE @,
                     !.mode_ = IF station THEN "Station" ELSE "Playlist"], o)

\* A rewindLocked that seeks whatever the device is doing and starts nothing.
rewindSeekOnly(e, o) ==
    IF o.late /\ o.ctl THEN [e |-> e, ret |-> "true"]
    ELSE [e |-> e, ret |-> "false"]

\* rewindLocked.  o.late: the MCI position query answers and is past 3000 ms;
\* o.ctl: the seek succeeds.
rewindLocked(e, o) ==
    IF HasChan(e) /\ Chan(e).isStream THEN playStreamLocked(e)
    ELSE IF e.osHandle = "mci" /\ o.late /\ o.ctl
    THEN [e |-> [e EXCEPT !.state_ = IF @ # "Paused" THEN "Playing" ELSE @],
          ret |-> "true"]
    ELSE IF ~HasChan(e) THEN [e |-> e, ret |-> "false"]
    ELSE IF Len(Chan(e).songs) = 0 THEN [e |-> e, ret |-> "false"]
    ELSE
    logAndStartChosenLocked(
        [e EXCEPT !.songIndex_ = IF @ = 0 THEN Len(Chan(e).songs) - 1 ELSE @ - 1,
                  !.previousWasSong_ = TRUE,
                  !.mode_ = IF @ = "None"
                            THEN (IF Chan(e).type = "Station" THEN "Station"
                                  ELSE "Playlist")
                            ELSE @], o)

\* isTrackCompleteLocked.  o.done is what the backend's status query says once
\* the grace period after the start is over (o.grace: still inside it).
\* minProbeTime of isTrackCompleteLocked, in milliseconds.
minProbeTimeLocal(e) == 800

minProbeTime(e) ==
    IF e.backend_ \in {"MediaFoundationStream", "DirectShowStream"} THEN 2500 ELSE 800

\* isTrackCompleteLocked.  o.grace is what elapsed < minProbeTime yields,
\* o.done what the status query of the backend says.
isTrackCompleteLocked(e, o) ==
    IF e.trackStartValid_ /\ o.grace THEN FALSE
    ELSE IF e.backend_ = "MediaFoundationStream" /\ e.osHandle # "mf" THEN TRUE
    ELSE IF e.backend_ = "DirectShowStream" /\ e.osHandle # "ds" THEN TRUE
    ELSE IF e.backend_ \notin {"MediaFoundationStream", "DirectShowStream"}
            /\ e.osHandle # "mci" THEN TRUE
    ELSE o.done

\* An end of updateTrackLocked that goes back to the first song when the
\* sequencer has none.
playAdvancedLooping(adv, o) ==
    IF adv.track = NoPath
    THEN playPathLocked([adv.e EXCEPT !.songIndex_ = 0], Chan(adv.e).songs[1], o)
    ELSE playPathLocked(adv.e, adv.track, o)

\* The end of updateTrackLocked: adv is what advanceAndChooseNextTrackLocked
\* returned.
playAdvancedLocked(adv, o) ==
    IF adv.track = NoPath
    THEN [e |-> Silenced(stopPlaybackDeviceLocked(adv.e, TRUE)), ret |-> "false"]
    ELSE playPathLocked(adv.e, adv.track, o)

\* An updateTrackLocked that leaves the ended track in place.
updateTrackIdle(e, o) == [e |-> e, ret |-> "true"]

\* updateTrackLocked(true), as the maintenance tick calls it.
updateTrackLocked(e, o) ==
    IF e.state_ # "Playing" THEN [e |-> e, ret |-> "false"]
    ELSE IF ~HasChan(e) THEN [e |-> e, ret |-> "false"]
    ELSE IF Chan(e).isStream THEN playStreamLocked(e)
    ELSE
    playAdvancedLocked(advanceAndChooseNextTrackLocked(e), o)


\* ---------------------------------------------------- the public closures
\* Each operator is the lambda the public function hands to
\* runBoolCommandForDevice: [e |-> engine after, ret |-> "true" | "false" |
\* "stream" (inside playStreamLocked, at the resolver) | "throw"].
scanLibraryLocked(e) ==
    [e EXCEPT !.channels_ = DiskCatalog, !.streamOrderKeys_ = IniStreamOrder]

\* A selection that leaves the cursor and the track where they were.
SelectedKeepingCursor(e, key) ==
    stopPlaybackDeviceLocked(
        [e EXCEPT !.selectedKey_ = key, !.mode_ = "None", !.state_ = "Stopped",
                  !.lastVolume_ = -1, !.lastLeftVolume_ = -1, !.lastRightVolume_ = -1,
                  !.panControlsAvailable_ = TRUE, !.panUnavailableLogged_ = FALSE,
                  !.trackStartValid_ = FALSE], TRUE)

\* The reset changePlaylist, changeToNextSource and selectNextSource share.
Selected(e, key) ==
    stopPlaybackDeviceLocked(
        [e EXCEPT !.selectedKey_ = key, !.mode_ = "None", !.state_ = "Stopped",
                  !.songIndex_ = 0, !.transitionIndex_ = 0, !.adIndex_ = 0,
                  !.songsSinceAd_ = 0, !.previousWasSong_ = FALSE,
                  !.currentTrackPath_ = NoPath,
                  !.lastVolume_ = -1, !.lastLeftVolume_ = -1, !.lastRightVolume_ = -1,
                  !.panControlsAvailable_ = TRUE, !.panUnavailableLogged_ = FALSE,
                  !.trackStartValid_ = FALSE], TRUE)

changePlaylist(e, channelName) ==
    LET e1 == IF config_.autoRescanOnChangePlaylist THEN scanLibraryLocked(e) ELSE e
        key == lookupChannelLocked(e1, channelName)
    IN IF key = NoKey THEN [e |-> e1, ret |-> "false"]
       ELSE [e |-> Selected(e1, key), ret |-> "true"]

\* A play() that starts over from the first song.
playFromStart(e, o) ==
    IF e.selectedKey_ = NoKey THEN [e |-> e, ret |-> "false"]
    ELSE IF e.state_ = "Paused" THEN resumeLocked(e, o)
    ELSE IF ~HasChan(e) THEN [e |-> e, ret |-> "false"]
    ELSE startCurrentLocked(e, IF Chan(e).type = "Station" THEN "Station" ELSE "Playlist",
                            TRUE, o)

play(e, o) ==
    IF e.selectedKey_ = NoKey THEN [e |-> e, ret |-> "false"]
    ELSE IF e.state_ = "Paused" THEN resumeLocked(e, o)
    ELSE IF ~HasChan(e) THEN [e |-> e, ret |-> "false"]
    ELSE startCurrentLocked(e, IF Chan(e).type = "Station" THEN "Station" ELSE "Playlist",
                            FALSE, o)

\* start() from wherever the cursor is.
startKeepingCursor(e, o) ==
    IF e.selectedKey_ = NoKey THEN [e |-> e, ret |-> "false"]
    ELSE IF ~HasChan(e) THEN [e |-> e, ret |-> "false"]
    ELSE IF Chan(e).type # "Station" THEN [e |-> e, ret |-> "false"]
    ELSE startCurrentLocked(e, "Station", FALSE, o)

\* start() with the mode of a playlist.
startAsPlaylist(e, o) ==
    IF e.selectedKey_ = NoKey THEN [e |-> e, ret |-> "false"]
    ELSE IF ~HasChan(e) THEN [e |-> e, ret |-> "false"]
    ELSE IF Chan(e).type # "Station" THEN [e |-> e, ret |-> "false"]
    ELSE startCurrentLocked(e, "Playlist", TRUE, o)

start(e, o) ==
    IF e.selectedKey_ = NoKey THEN [e |-> e, ret |-> "false"]
    ELSE IF ~HasChan(e) THEN [e |-> e, ret |-> "false"]
    ELSE IF Chan(e).type # "Station" THEN [e |-> e, ret |-> "false"]
    ELSE startCurrentLocked(e, "Station", TRUE, o)

\* A stop() that leaves the cursor and the track where they were.
stopKeepingCursor(e) ==
    [e |-> [stopPlaybackDeviceLocked(e, TRUE) EXCEPT
                !.state_ = "Stopped", !.mode_ = "None",
                !.lastVolume_ = -1, !.lastLeftVolume_ = -1, !.lastRightVolume_ = -1,
                !.panControlsAvailable_ = TRUE, !.panUnavailableLogged_ = FALSE,
                !.trackStartValid_ = FALSE],
     ret |-> "true"]

stop(e) ==
    [e |-> [stopPlaybackDeviceLocked(e, TRUE) EXCEPT
                !.state_ = "Stopped", !.mode_ = "None",
                !.songIndex_ = 0, !.transitionIndex_ = 0, !.adIndex_ = 0,
                !.songsSinceAd_ = 0, !.previousWasSong_ = FALSE,
                !.currentTrackPath_ = NoPath,
                !.lastVolume_ = -1, !.lastLeftVolume_ = -1, !.lastRightVolume_ = -1,
                !.panControlsAvailable_ = TRUE, !.panUnavailableLogged_ = FALSE,
                !.trackStartValid_ = FALSE],
     ret |-> "true"]

rescanLibrary(e) ==
    LET e1 == scanLibraryLocked(e)
    IN [e |-> e1, ret |-> IF DOMAIN e1.channels_ # {} THEN "true" ELSE "false"]

\* toLower(displayName) < toLower(displayName) of the std::sort comparator,
\* as the position of the lowered name in lexicographic order.
LowerRank(displayName) ==
    CASE displayName = "AM" -> 0 [] displayName = "Chill" -> 1 [] displayName = "FM" -> 2
      [] displayName = "Jazz" -> 3 [] displayName = "Live" -> 4 [] displayName = "Mix" -> 5
      [] displayName = "News" -> 6 [] displayName = "Talk" -> 7

\* The keys of a std::map come out in ascending key order.
KeyRank(k) ==
    CASE k = ChillKey -> 0 [] k = PlaylistKey -> 1 [] k = AmKey -> 2 [] k = StationKey -> 3
      [] k = TalkKey -> 4 [] k = JazzKey -> 5 [] k = StreamKey -> 6 [] k = NewsKey -> 7

MapOrder(keys) ==
    [i \in 1..Cardinality(keys) |->
        CHOOSE k \in keys : Cardinality({j \in keys : KeyRank(j) < KeyRank(k)}) = i - 1]

\* The candidate keys of a category, sorted the way both "next source"
\* closures sort them; <<>> with ok = FALSE for an invalid category.
SourceCandidates(e, category) ==
    LET inMap == MapOrder(DOMAIN e.channels_)
        Wanted(k) == ~e.channels_[k].isStream
                     /\ ((category = 1 /\ e.channels_[k].type = "Playlist")
                         \/ (category = 2 /\ e.channels_[k].type = "Station"))
        Stream(k) == k \in DOMAIN e.channels_ /\ e.channels_[k].isStream
        raw == IF category \in {1, 2} THEN SelectSeq(inMap, Wanted)
               ELSE IF category = 3 THEN SelectSeq(e.streamOrderKeys_, Stream)
               ELSE <<>>
    IN SortSeq(raw, LAMBDA a, b : LowerRank(e.channels_[a].displayName)
                                  < LowerRank(e.channels_[b].displayName))

\* A changeToNextSource that selects the last candidate.
changeToLastSource(e, category) ==
    LET e1 == IF config_.autoRescanOnChangePlaylist THEN scanLibraryLocked(e) ELSE e
        candidates == SourceCandidates(e1, category)
    IN IF category \notin {1, 2, 3} THEN [e |-> e1, ret |-> "false"]
       ELSE IF Len(candidates) = 0 THEN [e |-> e1, ret |-> "false"]
       ELSE [e |-> Selected(e1, candidates[Len(candidates)]), ret |-> "true"]

changeToNextSource(e, category) ==
    LET e1 == IF config_.autoRescanOnChangePlaylist THEN scanLibraryLocked(e) ELSE e
        candidates == SourceCandidates(e1, category)
    IN IF category \notin {1, 2, 3} THEN [e |-> e1, ret |-> "false"]
       ELSE IF Len(candidates) = 0 THEN [e |-> e1, ret |-> "false"]
       ELSE [e |-> Selected(e1, candidates[1]), ret |-> "true"]

\* A selectNextSource that starts over from the first candidate.
selectFirstSource(e, category) == changeToNextSource(e, category)

selectNextSource(e, category) ==
    LET e1 == IF config_.autoRescanOnChangePlaylist THEN scanLibraryLocked(e) ELSE e
        candidates == SourceCandidates(e1, category)
        at == {i \in 1..Len(candidates) : candidates[i] = e1.selectedKey_}
        nextIndex == IF at = {} THEN 0
                     ELSE (CHOOSE i \in at : \A j \in at : i <= j) % Len(candidates)
    IN IF category \notin {1, 2, 3} THEN [e |-> e1, ret |-> "false"]
       ELSE IF Len(candidates) = 0 THEN [e |-> e1, ret |-> "false"]
       ELSE [e |-> Selected(e1, candidates[nextIndex + 1]), ret |-> "true"]

setPositions(e, emitter, player, o) ==
    [e |-> updateFadeVolumeLocked(
               [e EXCEPT !.emitterPosition_ = emitter, !.playerPosition_ = player], o.vol),
     ret |-> "true"]

\* The closures below write deviceStates_[currentDeviceId_] in place.
WithDevice(e, Change(_)) ==
    LET e1 == ensureDeviceStateLocked(e, e.currentDeviceId_)
    IN [e1 EXCEPT !.deviceStates_[e1.currentDeviceId_] = Change(@)]

\* setFadeParams that resets only when minDistance is negative.
setFadeParamsMinOnly(e, minDistance, maxDistance, panDistance, o) ==
    LET Reset(d) == [d EXCEPT !.fadeOverride.enabled = FALSE]
        Override(d) ==
            [d EXCEPT !.fadeOverride =
                [enabled |-> TRUE, minDistance |-> minDistance,
                 maxDistance |-> IF maxDistance > minDistance + kMinimumFadeGap
                                 THEN maxDistance ELSE minDistance + kMinimumFadeGap,
                 panDistance |-> IF panDistance > kMinimumFadeGap
                                 THEN panDistance ELSE kMinimumFadeGap]]
    IN IF minDistance < 0
       THEN [e |-> updateFadeVolumeLocked(WithDevice(e, Reset), o.vol), ret |-> "true"]
       ELSE [e |-> updateFadeVolumeLocked(WithDevice(e, Override), o.vol), ret |-> "true"]

setFadeParams(e, minDistance, maxDistance, panDistance, o) ==
    LET Reset(d) == [d EXCEPT !.fadeOverride.enabled = FALSE]
        Override(d) ==
            [d EXCEPT !.fadeOverride =
                [enabled |-> TRUE, minDistance |-> minDistance,
                 maxDistance |-> IF maxDistance > minDistance + kMinimumFadeGap
                                 THEN maxDistance ELSE minDistance + kMinimumFadeGap,
                 panDistance |-> IF panDistance > kMinimumFadeGap
                                 THEN panDistance ELSE kMinimumFadeGap]]
    IN IF minDistance < 0 \/ maxDistance < 0 \/ panDistance < 0
       THEN [e |-> updateFadeVolumeLocked(WithDevice(e, Reset), o.vol), ret |-> "true"]
       ELSE [e |-> updateFadeVolumeLocked(WithDevice(e, Override), o.vol), ret |-> "true"]

volumeUp(e, step, o) ==
    LET deltaPercent == IF step > 0 THEN step ELSE kDefaultVolumeStepPercent
        Up(d) == [d EXCEPT !.volumeGain = Clamp(@ + deltaPercent, 0, 200)]
    IN [e |-> updateFadeVolumeLocked(WithDevice(e, Up), o.vol), ret |-> "true"]

volumeDown(e, step, o) ==
    LET deltaPercent == IF step > 0 THEN step ELSE kDefaultVolumeStepPercent
        Down(d) == [d EXCEPT !.volumeGain = Clamp(@ - deltaPercent, 0, 200)]
    IN [e |-> updateFadeVolumeLocked(WithDevice(e, Down), o.vol), ret |-> "true"]

\* setVolume writing the gain of every known device.
setVolumeOfAll(e, volume, o) ==
    LET e1 == ensureDeviceStateLocked(e, e.currentDeviceId_)
        gains == [e1 EXCEPT !.deviceStates_ =
                     [d \in DOMAIN @ |->
                         [@[d] EXCEPT !.volumeGain = Clamp(volume, 0, kMaximumVolumePercent)]]]
    IN [e |-> updateFadeVolumeLocked(gains, o.vol), ret |-> "true"]

\* setVolume that stores the percentage as it came.
setVolumeUnclamped(e, volume, o) ==
    LET Set(d) == [d EXCEPT !.volumeGain = volume]
    IN [e |-> updateFadeVolumeLocked(WithDevice(e, Set), o.vol), ret |-> "true"]

setVolume(e, volume, o) ==
    LET Set(d) == [d EXCEPT !.volumeGain = Clamp(volume, 0, kMaximumVolumePercent)]
    IN [e |-> updateFadeVolumeLocked(WithDevice(e, Set), o.vol), ret |-> "true"]

\* The names of the files on disk: in every channel song 0 is Intro.mp3,
\* song 1 is Outro.OGG and song 2 is intro.wav (the stem of song 0 in other
\* letters); a transition or an ad is clip.mp3.  path.filename() and
\* path.stem() as strings.
filename(path) ==
    IF path = NoPath THEN ""
    ELSE IF path[2] # "song" THEN "clip.mp3"
    ELSE CASE path[3] = 0 -> "Intro.mp3"
           [] path[3] = 1 -> "Outro.OGG"
           [] OTHER -> "intro.wav"

stem(path) ==
    IF path = NoPath THEN ""
    ELSE IF path[2] # "song" THEN "clip"
    ELSE CASE path[3] = 0 -> "Intro"
           [] path[3] = 1 -> "Outro"
           [] OTHER -> "intro"

\* The basenames a caller passes to setTrack.
TrackNames ==
    {"", "  ", "intro", " INTRO ", "Intro.mp3", "intro.wav", "OUTRO.ogg", "outro",
     "outro.mp3", "intr", "clip"}

\* trim and toLower on the strings above.
trim(text) ==
    CASE text = "  " -> ""
      [] text = " INTRO " -> "INTRO"
      [] OTHER -> text

toLower(text) ==
    CASE text \in {"INTRO", "Intro"} -> "intro"
      [] text = "Intro.mp3" -> "intro.mp3"
      [] text \in {"Outro.OGG", "OUTRO.ogg"} -> "outro.ogg"
      [] text = "Outro" -> "outro"
      [] OTHER -> text

\* The song a needle names: its file name or its stem, in lower case.
NamedBy(path, needle) ==
    needle = toLower(filename(path)) \/ needle = toLower(stem(path))

\* The loop of setTrack over channel.songs: the index of the first song the
\* needle names, channel.songs.size() when there is none.
RECURSIVE foundIndex(_, _, _)
foundIndex(songs, needle, i) ==
    IF i >= Len(songs) THEN Len(songs)
    ELSE IF NamedBy(songs[i + 1], needle) THEN i
    ELSE foundIndex(songs, needle, i + 1)

\* setTrack once the song is found: trackIndex is foundIndex.
setTrackTo(e, trackIndex, o) ==
    LET wasPlaying == e.state_ = "Playing"
        e1 == IF e.state_ \in {"Playing", "Paused"}
              THEN [stopPlaybackDeviceLocked(e, TRUE) EXCEPT
                        !.state_ = "Stopped", !.trackStartValid_ = FALSE,
                        !.lastVolume_ = -1, !.lastLeftVolume_ = -1,
                        !.lastRightVolume_ = -1]
              ELSE e
        e2 == [e1 EXCEPT !.songIndex_ = trackIndex,
                         !.currentTrackPath_ = Chan(e).songs[trackIndex + 1],
                         !.mode_ = IF Chan(e).type = "Station" THEN "Station"
                                   ELSE "Playlist",
                         !.previousWasSong_ = TRUE]
    IN IF ~wasPlaying THEN [e |-> e2, ret |-> "true"]
       ELSE playPathLocked(e2, e2.currentTrackPath_, o)

\* setTrack without the test for a song that is not found: takes the
\* last song then.
setTrackLastWhenMissing(e, trackBasename, o) ==
    IF e.selectedKey_ = NoKey THEN [e |-> e, ret |-> "false"]
    ELSE IF ~HasChan(e) THEN [e |-> e, ret |-> "false"]
    ELSE IF Chan(e).isStream THEN [e |-> e, ret |-> "false"]
    ELSE IF toLower(trim(trackBasename)) = "" THEN [e |-> e, ret |-> "false"]
    ELSE IF foundIndex(Chan(e).songs, toLower(trim(trackBasename)), 0)
                >= Len(Chan(e).songs)
    THEN setTrackTo(e, Len(Chan(e).songs) - 1, o)
    ELSE setTrackTo(e, foundIndex(Chan(e).songs, toLower(trim(trackBasename)), 0), o)

setTrack(e, trackBasename, o) ==
    IF e.selectedKey_ = NoKey THEN [e |-> e, ret |-> "false"]
    ELSE IF ~HasChan(e) THEN [e |-> e, ret |-> "false"]
    ELSE IF Chan(e).isStream THEN [e |-> e, ret |-> "false"]
    ELSE IF toLower(trim(trackBasename)) = "" THEN [e |-> e, ret |-> "false"]
    ELSE IF foundIndex(Chan(e).songs, toLower(trim(trackBasename)), 0)
                >= Len(Chan(e).songs)
    THEN [e |-> e, ret |-> "false"]
    ELSE setTrackTo(e, foundIndex(Chan(e).songs, toLower(trim(trackBasename)), 0), o)

getTrack(e, deviceId) ==
    LET live == deviceId = e.currentDeviceId_
        known == deviceId \in DOMAIN e.deviceStates_
        key == IF live THEN e.selectedKey_ ELSE e.deviceStates_[deviceId].selectedKey
        songIndex == IF live THEN e.songIndex_ ELSE e.deviceStates_[deviceId].songIndex
        trackPath == IF live THEN e.currentTrackPath_
                     ELSE e.deviceStates_[deviceId].currentTrackPath
    IN IF ~live /\ ~known THEN ""
       ELSE IF key = NoKey THEN ""
       ELSE IF key \notin DOMAIN e.channels_ THEN ""
       ELSE IF e.channels_[key].isStream THEN "na"
       ELSE IF trackPath # NoPath THEN filename(trackPath)
       ELSE IF songIndex < Len(e.channels_[key].songs)
       THEN filename(e.channels_[key].songs[songIndex + 1])
       ELSE ""


\* ------------------------------------------------------------ accessors
isPlaying(e, deviceId) ==
    IF deviceId = e.currentDeviceId_ THEN e.state_ = "Playing"
    ELSE IF deviceId \notin DOMAIN e.deviceStates_ THEN FALSE
    ELSE e.deviceStates_[deviceId].state = "Playing"

\* PlaybackState of a device: state_ for the current one, the snapshot's for
\* another, Stopped for one no call has named.
stateOf(e, deviceId) ==
    IF deviceId = e.currentDeviceId_ THEN e.state_
    ELSE IF deviceId \notin DOMAIN e.deviceStates_ THEN "Stopped"
    ELSE e.deviceStates_[deviceId].state

\* volumeGain * kDefaultVolumePercent, the gain being in hundredths.
getVolume(e, deviceId) ==
    IF deviceId \notin DOMAIN e.deviceStates_ THEN kDefaultVolumePercent
    ELSE Clamp((e.deviceStates_[deviceId].volumeGain * kDefaultVolumePercent) \div 100,
               0, kMaximumVolumePercent)

currentChannel(e, deviceId) ==
    IF deviceId = e.currentDeviceId_ THEN e.selectedKey_
    ELSE IF deviceId \notin DOMAIN e.deviceStates_ THEN NoKey
    ELSE e.deviceStates_[deviceId].selectedKey

currentSourceName(e, deviceId) ==
    LET key == currentChannel(e, deviceId)
    IN IF key = NoKey THEN ""
       ELSE IF key \notin DOMAIN e.channels_ THEN ""
       ELSE e.channels_[key].displayName

\* ------------------------------------------------------------- the inputs
\* The outcomes of the OS calls one closure makes.
Calm == [open |-> "mci", vol |-> "ok", intr |-> FALSE, ctl |-> TRUE, late |-> FALSE,
         throws |-> FALSE, grace |-> FALSE, done |-> TRUE]

\* A call: the function, its string argument (s), its number argument (n)
\* and its three floats (v: the emitter position or the fade parameters).
Cmd(op, n) == [op |-> op, s |-> "", n |-> n, v |-> <<0, 0, 0>>]
CmdS(op, s) == [op |-> op, s |-> s, n |-> 0, v |-> <<0, 0, 0>>]
CmdV(op, v) == [op |-> op, s |-> "", n |-> 0, v |-> v]

\* A call together with what the OS answers while it runs.
Call(cmd, o) == [cmd |-> cmd, o |-> o]

\* The functions that call requestPlayInterrupt before they queue.
Interrupting(cmd) ==
    cmd.op \in {"changePlaylist", "stop", "forward", "rewind", "changeToNextSource",
                "selectNextSource", "setTrack"}

RunBody(e, cmd, o) ==
    CASE cmd.op = "changePlaylist" -> changePlaylist(e, cmd.s)
      [] cmd.op \in {"play", "playAsync"} -> play(e, o)
      [] cmd.op = "start" -> start(e, o)
      [] cmd.op = "pause" -> pauseLocked(e, o)
      [] cmd.op = "stop" -> stop(e)
      [] cmd.op = "forward" -> forwardLocked(e, o)
      [] cmd.op = "rewind" -> rewindLocked(e, o)
      [] cmd.op = "rescanLibrary" -> rescanLibrary(e)
      [] cmd.op = "changeToNextSource" -> changeToNextSource(e, cmd.n)
      [] cmd.op = "selectNextSource" -> selectNextSource(e, cmd.n)
      [] cmd.op = "setPositions" ->
            setPositions(e, [x |-> cmd.v[1], y |-> cmd.v[2], z |-> cmd.v[3]], Origin, o)
      [] cmd.op = "setFadeParams" -> setFadeParams(e, cmd.v[1], cmd.v[2], cmd.v[3], o)
      [] cmd.op = "volumeUp" -> volumeUp(e, cmd.n, o)
      [] cmd.op = "volumeDown" -> volumeDown(e, cmd.n, o)
      [] cmd.op = "setVolume" -> setVolume(e, cmd.n, o)
      [] cmd.op = "setTrack" -> setTrack(e, cmd.s, o)

\* The closure runBoolCommandForDevice builds, up to the return of command():
\* switchToDeviceLocked, clearPlayInterruptRequest, command().
RunClosure(e, deviceId, cmd, o) == RunBody(switchToDeviceLocked(e, deviceId), cmd, o)

WithinCaps(e) == e.transitionIndex_ <= MaxCursor /\ e.adIndex_ <= MaxCursor

\* What a device is, in the terms a caller can tell: the live members and the
\* two values that live in its snapshot only.
LiveView(e) ==
    LET known == e.currentDeviceId_ \in DOMAIN e.deviceStates_
    IN [selectedKey |-> e.selectedKey_, mode |-> e.mode_,
        songIndex |-> e.songIndex_, transitionIndex |-> e.transitionIndex_,
        adIndex |-> e.adIndex_, songsSinceAd |-> e.songsSinceAd_,
        previousWasSong |-> e.previousWasSong_,
        currentTrackPath |-> e.currentTrackPath_,
        emitterPosition |-> e.emitterPosition_, playerPosition |-> e.playerPosition_,
        volumeGain |-> IF known THEN e.deviceStates_[e.currentDeviceId_].volumeGain
                       ELSE 100,
        fadeOverride |-> IF known THEN e.deviceStates_[e.currentDeviceId_].fadeOverride
                         ELSE NoFadeOverride]

\* superseded after a closure for deviceId ran on e.
Supersede(e, deviceId) ==
    IF deviceId = e.currentDeviceId_ THEN superseded
    ELSE LET rest == [d \in (DOMAIN superseded) \ {deviceId} |-> superseded[d]]
         IN Put(rest, e.currentDeviceId_, LiveView(e))

Idle ==
    [pc |-> "idle", of |-> 0, left |-> 0, ret |-> "none",
     url |-> "", depth |-> 0, fetches |-> 0, via |-> "none"]

threadVars == <<workerRunning_, stopWorker_, workerThreadId_, commandQueue_,
                mutexOwner, workerPc, current, callers, nextTicket>>
vars == <<eng, config_, playInterruptRequested_, wk, target, superseded, seen, threadVars>>

\* ----------------------------------------------------------------- Spec
\* The Config of the INI the model runs with (loadConfig).
IniConfig ==
    [adIntervalSongs |-> 2, minFadeDistance |-> 150, maxFadeDistance |-> 5000,
     panDistance |-> 1200, enableSpatialPan |-> TRUE,
     autoRescanOnChangePlaylist |-> TRUE, loopPlaylist |-> TRUE]

NoThread == "none"
Worker == "worker"
CallerIds == {"c1", "c2"}

\* A thread outside a call: pc is where the thread is, op what it called,
\* ticket the place of its closure in the order of enqueuing, done and
\* pending the PendingResult its closure shares with it, result what the
\* call returned, waited the milliseconds spent in cv_.wait_for.
CallerIdle ==
    [pc |-> "idle", op |-> "none", dev |-> 0, call |-> Call(Cmd("none", 0), Calm),
     completion |-> "none", ticket |-> 0, done |-> FALSE, pending |-> "none",
     result |-> "none", waited |-> 0]

\* An element of commandQueue_: the closure for a call, the thread that waits
\* for it (none for playAsync) and what its completion handler does.
NoCommand ==
    [ticket |-> 0, dev |-> 0, call |-> Call(Cmd("none", 0), Calm), caller |-> NoThread,
     completion |-> "none"]

\* seen is history, not a member: nothing (Unseen, no history is kept), or
\* the latest closure or maintenance tick the engine ran: cmd the call (op
\* "tick" for the worker's own updateTrackLocked), was the playback state of
\* the device when the call came, ret what it returned, open what the OS did
\* with the file it had to open (Calm.open), n the tracks SpecSequencer's
\* worker started since the latest closure, flip turning at every note.
\* For a call whose requestPlayInterrupt has run and whose closure has not
\* (asked): ask and dev are the call and its device, before what the device
\* was when the call came, busy whether a connection attempt was running.
Unseen ==
    [on |-> FALSE, flip |-> FALSE, cmd |-> Cmd("none", 0), was |-> "Stopped",
     ret |-> "none", open |-> "mci", n |-> 0,
     asked |-> FALSE, ask |-> Cmd("none", 0), dev |-> 0, before |-> <<>>, busy |-> FALSE,
     now |-> 0]
Watching == [Unseen EXCEPT !.on = TRUE]

Noted(cmd, was, ret, open, n) ==
    IF seen.on
    THEN [seen EXCEPT !.flip = ~@, !.cmd = cmd, !.was = was, !.ret = ret,
                      !.open = open, !.n = n, !.asked = (@ /\ cmd # seen.ask)]
    ELSE seen

\* The state after RadioEngine::RadioEngine, with the Config the INI holds.
Constructed(config, history) ==
    /\ eng = InitialEngine
    /\ config_ = config
    /\ seen = history
    /\ playInterruptRequested_ = FALSE
    /\ wk = Idle
    /\ target = 0
    /\ superseded = <<>>
    /\ workerRunning_ = FALSE
    /\ stopWorker_ = FALSE
    /\ workerThreadId_ = NoThread
    /\ commandQueue_ = <<>>
    /\ mutexOwner = NoThread
    /\ workerPc = "unstarted"
    /\ current = NoCommand
    /\ callers = [c \in CallerIds |-> CallerIdle]
    /\ nextTicket = 1

Init == Constructed(IniConfig, Unseen)

\* initialize(): loadConfig, scanLibraryLocked, start the worker, sync.
Initialize ==
    /\ wk.pc = "idle"
    /\ mutexOwner = NoThread
    /\ workerPc # "terminated"
    /\ eng' = syncCurrentDeviceStateLocked(scanLibraryLocked(eng))
    /\ workerRunning_' = TRUE
    /\ stopWorker_' = (workerRunning_ /\ stopWorker_)
    /\ workerPc' = IF workerRunning_ THEN workerPc ELSE "start"
    /\ UNCHANGED <<config_, playInterruptRequested_, wk, target, superseded, seen,
                   workerThreadId_, commandQueue_, mutexOwner, current, callers,
                   nextTicket>>

\* requestPlayInterrupt, the first statement of the interrupting functions,
\* runs on the caller's thread before mutex_ is taken.
RequestPlayInterrupt ==
    /\ ~playInterruptRequested_
    /\ playInterruptRequested_' = TRUE
    /\ UNCHANGED <<eng, config_, wk, target, superseded, seen, threadVars>>

\* One closure, from switchToDeviceLocked to the final sync, run by the
\* worker (workerRunning_) or inline by the caller.  A closure that reaches
\* playStreamLocked goes on in the stream actions.
Command(deviceId, cmd, o) ==
    /\ wk.pc = "idle"
    /\ LET r == RunClosure(eng, deviceId, cmd, o)
       IN /\ WithinCaps(r.e)
          /\ playInterruptRequested_' = o.intr
          /\ target' = deviceId
          /\ superseded' = Supersede(eng, deviceId)
          /\ seen' = Noted(cmd, stateOf(eng, deviceId), r.ret, o.open, 0)
          /\ IF r.ret = "stream"
             THEN /\ eng' = r.e
                  /\ wk' = [Idle EXCEPT !.pc = "resolve"]
             ELSE IF r.ret = "throw" /\ ~workerRunning_
             THEN /\ eng' = r.e
                  /\ wk' = wk
             ELSE /\ eng' = syncCurrentDeviceStateLocked(r.e)
                  /\ wk' = wk
    /\ UNCHANGED <<config_, threadVars>>

\* What the accessors and the sequencer hold for device deviceId: the
\* members for the current device, its DeviceState for another one.
DeviceView(e, deviceId) ==
    IF deviceId = e.currentDeviceId_
    THEN [selectedKey |-> e.selectedKey_, state |-> e.state_, mode |-> e.mode_,
          cursor |-> <<e.songIndex_, e.transitionIndex_, e.adIndex_, e.songsSinceAd_>>,
          currentTrackPath |-> e.currentTrackPath_]
    ELSE IF deviceId \in DOMAIN e.deviceStates_
    THEN [selectedKey |-> e.deviceStates_[deviceId].selectedKey,
          state |-> e.deviceStates_[deviceId].state,
          mode |-> e.deviceStates_[deviceId].mode,
          cursor |-> <<e.deviceStates_[deviceId].songIndex,
                       e.deviceStates_[deviceId].transitionIndex,
                       e.deviceStates_[deviceId].adIndex,
                       e.deviceStates_[deviceId].songsSinceAd>>,
          currentTrackPath |-> e.deviceStates_[deviceId].currentTrackPath]
    ELSE [selectedKey |-> NoKey, state |-> "Stopped", mode |-> "None",
          cursor |-> <<0, 0, 0, 0>>, currentTrackPath |-> NoPath]

\* An interrupting public function up to runBoolCommandForDevice: the
\* caller's thread raises the flag, whatever the worker is doing.
Asked(deviceId, cmd) ==
    /\ seen.on /\ ~seen.asked
    /\ Interrupting(cmd)
    /\ playInterruptRequested_' = TRUE
    /\ seen' = [seen EXCEPT !.asked = TRUE, !.ask = cmd, !.dev = deviceId,
                            !.before = DeviceView(eng, deviceId),
                            !.busy = (wk.pc # "idle")]
    /\ UNCHANGED <<eng, config_, wk, target, superseded, threadVars>>

\* The closure of the call that was asked, once the worker is free.
Answered(o) ==
    /\ seen.asked
    /\ Command(seen.dev, seen.ask, o)

\* ------------------------------------------- the stream connection attempt
\* playStreamLocked after stopPlaybackDeviceLocked, in the steps at which it
\* reads playInterruptRequested_:
\*   "resolve"  inside resolvePlayableStreamUrl; the flag is read when it
\*              returns and again at the top of the candidate loop;
\*   "mf"       inside startMediaFoundationStreamLocked's wait loop, which
\*              reads the flag every turn; on its failure the flag is read
\*              before startDirectShowStreamLocked and twice inside it;
\*   "ds"       inside RenderFile; the flag is read when it returns and, when
\*              the candidate failed, at the top of the loop.
\* wk.of is the number of candidates and wk.left counts those after the
\* current one: the attempt is at candidate wk.of - wk.left.
StreamStarted(e, backend, handle, vol) ==
    updateFadeVolumeLocked(
        [e EXCEPT !.currentTrackPath_ = NoPath, !.backend_ = backend,
                  !.state_ = "Playing",
                  !.trackStartTime_ = seen.now, !.trackStartValid_ = TRUE,
                  !.osHandle = handle, !.osVolume = <<-1, -1>>], vol)

StreamFinish(e, ret) ==
    /\ eng' = e
    /\ wk' = [wk EXCEPT !.pc = "finished", !.ret = ret]

StreamResolved(n) ==
    /\ wk.pc = "resolve"
    /\ IF playInterruptRequested_
       THEN StreamFinish(clearStreamState(eng), "false")
       ELSE eng' = eng /\ wk' = [Idle EXCEPT !.pc = "mf", !.of = n, !.left = n - 1]
    /\ UNCHANGED <<config_, playInterruptRequested_, target, superseded, seen, threadVars>>

\* StreamMf with a wait loop that does not read the flag.
StreamMfUnchecked(ok, vol) ==
    /\ wk.pc = "mf"
    /\ IF ok
       THEN StreamFinish(StreamStarted(eng, "MediaFoundationStream", "mf", vol), "true")
       ELSE eng' = eng /\ wk' = [wk EXCEPT !.pc = "ds"]
    /\ UNCHANGED <<config_, playInterruptRequested_, target, superseded, seen, threadVars>>

StreamMf(ok, vol) ==
    /\ wk.pc = "mf"
    /\ IF playInterruptRequested_
       THEN StreamFinish(clearStreamState(eng), "false")
       ELSE IF ok
       THEN StreamFinish(StreamStarted(eng, "MediaFoundationStream", "mf", vol), "true")
       ELSE eng' = eng /\ wk' = [wk EXCEPT !.pc = "ds"]
    /\ UNCHANGED <<config_, playInterruptRequested_, target, superseded, seen, threadVars>>

\* StreamDs that gives up after the first candidate.
StreamDsGivesUp(ok, vol) ==
    /\ wk.pc = "ds"
    /\ IF playInterruptRequested_
       THEN StreamFinish(clearStreamState(eng), "false")
       ELSE IF ok
       THEN StreamFinish(StreamStarted(eng, "DirectShowStream", "ds", vol), "true")
       ELSE StreamFinish(clearStreamState(eng), "false")
    /\ UNCHANGED <<config_, playInterruptRequested_, target, superseded, seen, threadVars>>

StreamDs(ok, vol) ==
    /\ wk.pc = "ds"
    /\ IF playInterruptRequested_
       THEN StreamFinish(clearStreamState(eng), "false")
       ELSE IF ok
       THEN StreamFinish(StreamStarted(eng, "DirectShowStream", "ds", vol), "true")
       ELSE IF wk.left > 0
       THEN eng' = eng /\ wk' = [wk EXCEPT !.pc = "mf", !.left = @ - 1]
       ELSE StreamFinish(clearStreamState(eng), "false")
    /\ UNCHANGED <<config_, playInterruptRequested_, target, superseded, seen, threadVars>>

\* The end of a closure (or of a maintenance tick) whose playStreamLocked
\* has returned: syncCurrentDeviceStateLocked and the result.
Complete ==
    /\ wk.pc = "finished"
    /\ eng' = syncCurrentDeviceStateLocked(eng)
    /\ wk' = Idle
    /\ UNCHANGED <<config_, playInterruptRequested_, target, superseded, seen, threadVars>>

\* --------------------------------------------------- the stream resolver
\* resolvePlayableStreamUrl, one action per level of its recursion.  wk.depth
\* is the level, wk.url the URL the level was given (the station's URL at
\* level 0, which playStreamLocked has trimmed), wk.fetches the calls of
\* fetchUrlText that reached the network, wk.via the return statement taken
\* ("none" while the resolver runs).
kMaxResolveDepth == 4

\* The URLs wrapper playlists name: two wrappers, one of them also written
\* in capitals, a direct audio file and a stream without extension.
WrapperA == "http://a/list.m3u"
WrapperACapitals == "HTTP://A/LIST.M3U"
WrapperB == "http://b/list.pls"
AudioFile == "http://cdn/track.aac"
Mount == "http://cdn/radio"
Entries == {WrapperA, WrapperACapitals, WrapperB, AudioFile, Mount}

toLowerCopy(url) == IF url = WrapperACapitals THEN WrapperA ELSE url

isHttpUrl(url) == url # ""

urlExtensionLower(url) ==
    CASE url \in {WrapperA, WrapperACapitals} -> ".m3u"
      [] url \in {WrapperB, "http://jazz/listen.pls"} -> ".pls"
      [] url = AudioFile -> ".aac"
      [] url = "http://news/live.mp3" -> ".mp3"
      [] OTHER -> ""

hasDirectAudioExtension(ext) ==
    ext \in {".mp3", ".aac", ".m4a", ".ogg", ".opus", ".wav", ".flac", ".wma"}

isLikelyWrapperExtension(ext) ==
    ext \in {".pls", ".m3u", ".m3u8", ".xspf", ".rss", ".atom", ".xml"}

\* What fetchUrlText and the parsers make of a URL: the fetch fails (or is
\* aborted on the way), the body is binary, the body holds no entry, or the
\* first entry is a URL.
Responses ==
    {[kind |-> k, entry |-> ""] : k \in {"fail", "binary", "noentry"}}
    \cup {[kind |-> "entry", entry |-> u] : u \in Entries}

\* The URL the running level was given.
inputUrl == IF wk.depth = 0 THEN Chan(eng).streamUrl ELSE wk.url

ResolverReturns(url, via, fetched) ==
    wk' = [wk EXCEPT !.url = url, !.via = via, !.fetches = @ + fetched]

\* A level after its fetch.
resolveFetched(response) ==
    IF response.kind # "entry" THEN ResolverReturns(inputUrl, response.kind, 1)
    ELSE IF toLowerCopy(response.entry) = toLowerCopy(inputUrl)
    THEN ResolverReturns(response.entry, "same", 1)
    ELSE IF isLikelyWrapperExtension(urlExtensionLower(response.entry))
    THEN wk' = [wk EXCEPT !.url = response.entry, !.depth = @ + 1, !.fetches = @ + 1]
    ELSE ResolverReturns(response.entry, "found", 1)

\* resolvePlayableStreamUrl without the test of the depth.
resolveUnbounded(response) ==
    /\ wk.pc = "resolve" /\ wk.via = "none"
    /\ HasChan(eng)
    /\ wk.fetches <= kMaxResolveDepth + 1
    /\ IF playInterruptRequested_ THEN ResolverReturns(inputUrl, "abort", 0)
       ELSE IF ~isHttpUrl(inputUrl) THEN ResolverReturns(inputUrl, "nothttp", 0)
       ELSE IF hasDirectAudioExtension(urlExtensionLower(inputUrl))
       THEN ResolverReturns(inputUrl, "direct", 0)
       ELSE resolveFetched(response)
    /\ UNCHANGED <<eng, config_, playInterruptRequested_, target, superseded, seen,
                   threadVars>>

\* resolvePlayableStreamUrl that gives back the station's URL from a deeper
\* level.
resolveToStation(response) ==
    /\ wk.pc = "resolve" /\ wk.via = "none"
    /\ HasChan(eng)
    /\ IF playInterruptRequested_ THEN ResolverReturns(Chan(eng).streamUrl, "abort", 0)
       ELSE IF wk.depth > kMaxResolveDepth
       THEN ResolverReturns(Chan(eng).streamUrl, "depth", 0)
       ELSE IF ~isHttpUrl(inputUrl) THEN ResolverReturns(inputUrl, "nothttp", 0)
       ELSE IF hasDirectAudioExtension(urlExtensionLower(inputUrl))
       THEN ResolverReturns(inputUrl, "direct", 0)
       ELSE IF response.kind # "entry"
       THEN ResolverReturns(Chan(eng).streamUrl, response.kind, 1)
       ELSE resolveFetched(response)
    /\ UNCHANGED <<eng, config_, playInterruptRequested_, target, superseded, seen,
                   threadVars>>

\* One level of resolvePlayableStreamUrl: it returns, or calls itself with
\* the entry it found.
resolvePlayableStreamUrl(response) ==
    /\ wk.pc = "resolve" /\ wk.via = "none"
    /\ HasChan(eng)
    /\ IF playInterruptRequested_ THEN ResolverReturns(inputUrl, "abort", 0)
       ELSE IF wk.depth > kMaxResolveDepth THEN ResolverReturns(inputUrl, "depth", 0)
       ELSE IF ~isHttpUrl(inputUrl) THEN ResolverReturns(inputUrl, "nothttp", 0)
       ELSE IF hasDirectAudioExtension(urlExtensionLower(inputUrl))
       THEN ResolverReturns(inputUrl, "direct", 0)
       ELSE resolveFetched(response)
    /\ UNCHANGED <<eng, config_, playInterruptRequested_, target, superseded, seen,
                   threadVars>>

\* playStreamLocked after the resolver has returned.
Resolved(n) == wk.via # "none" /\ StreamResolved(n)

\* ------------------------------------------------------ maintenance tick
\* The body of workerLoop after the queue is drained.
Tick(o) ==
    /\ workerRunning_
    /\ wk.pc = "idle"
    /\ eng.state_ = "Playing"
    /\ IF isTrackCompleteLocked(eng, o)
       THEN LET r == updateTrackLocked(
                         eng, [o EXCEPT !.intr = @ \/ playInterruptRequested_])
            IN /\ WithinCaps(r.e)
               /\ playInterruptRequested_' = (playInterruptRequested_ \/ o.intr)
               /\ seen' = Noted(Cmd("tick", 0), eng.state_, r.ret, o.open, seen.n)
               /\ IF r.ret = "stream"
                  THEN /\ eng' = r.e
                       /\ wk' = [Idle EXCEPT !.pc = "resolve"]
                  ELSE /\ eng' = syncCurrentDeviceStateLocked(r.e)
                       /\ wk' = wk
       ELSE /\ eng' = syncCurrentDeviceStateLocked(updateFadeVolumeLocked(eng, o.vol))
            /\ wk' = wk
            /\ playInterruptRequested_' = playInterruptRequested_
            /\ seen' = Noted(Cmd("tick", 0), eng.state_, "fade", "mci", seen.n)
    /\ UNCHANGED <<config_, target, superseded, threadVars>>

\* ---------------------------------------------- Spec: the device snapshots
\* The emitters share the engine.  Emitter 0 is selected, played, paused,
\* skipped, stopped, moved and tuned, and its tracks end; the other emitters
\* select and play, and their tracks outlast the run.
DeviceCalls ==
    {Call(CmdS("changePlaylist", "fm"), Calm), Call(Cmd("play", 0), Calm),
     Call(Cmd("pause", 0), Calm), Call(Cmd("stop", 0), Calm),
     Call(Cmd("forward", 0), Calm), Call(Cmd("setVolume", 150), Calm),
     Call(CmdV("setPositions", <<FarEast.x, FarEast.y, FarEast.z>>), Calm),
     Call(CmdV("setFadeParams", <<0, 0, 0>>), Calm)}

GuestCalls ==
    {Call(CmdS("changePlaylist", "fm"), Calm), Call(Cmd("play", 0), Calm)}

CallsFor(deviceId) == IF deviceId = 0 THEN DeviceCalls ELSE GuestCalls

TicksFor(deviceId) ==
    IF deviceId = 0 THEN {Calm, [Calm EXCEPT !.done = FALSE]}
    ELSE {[Calm EXCEPT !.done = FALSE]}

Next ==
    \/ Initialize
    \/ \E d \in Devices : \E c \in CallsFor(d) : Command(d, c.cmd, c.o)
    \/ \E o \in TicksFor(eng.currentDeviceId_) : Tick(o)

Spec == Init /\ [][Next]_vars

\* ------------------------------------------ SpecStation: the sequencer
\* Emitter 0 is tuned to the station and driven through every call that
\* starts a track while the worker advances it; a song of the station has a
\* file name outside the ANSI code page (the log line of forwardLocked and
\* rewindLocked throws on it); the other emitters select and play.
StationCalls ==
    {Call(CmdS("changePlaylist", "fm"), Calm), Call(Cmd("start", 0), Calm),
     Call(Cmd("play", 0), Calm), Call(Cmd("pause", 0), Calm),
     Call(Cmd("stop", 0), Calm), Call(CmdS("setTrack", "outro"), Calm),
     Call(Cmd("forward", 0), Calm), Call(Cmd("forward", 0), [Calm EXCEPT !.throws = TRUE]),
     Call(Cmd("rewind", 0), Calm), Call(Cmd("rewind", 0), [Calm EXCEPT !.late = TRUE])}

StationGuestCalls ==
    {Call(CmdS("changePlaylist", "fm"), Calm), Call(Cmd("play", 0), Calm)}

StationCallsFor(deviceId) == IF deviceId = 0 THEN StationCalls ELSE StationGuestCalls

\* The tracks of emitter 0 end (and the next one may fail to open); those of
\* the other emitters outlast the run.
StationTicksFor(deviceId) ==
    IF deviceId = 0 THEN {Calm, [Calm EXCEPT !.open = "noplay"]}
    ELSE {[Calm EXCEPT !.done = FALSE]}

NextStation ==
    \/ Initialize
    \/ \E d \in Devices : \E c \in StationCallsFor(d) : Command(d, c.cmd, c.o)
    \/ \E o \in StationTicksFor(eng.currentDeviceId_) : Tick(o)

SpecStation == Init /\ [][NextStation]_vars

\* ---------------------------------------- SpecStream: connection attempts
\* The emitters are tuned to the stream station; plays, skips and stops come
\* in while an attempt runs (requestPlayInterrupt on the caller's thread),
\* and the stream ends now and then (the tick restarts it).
StreamCalls ==
    {Call(CmdS("changePlaylist", "live"), Calm), Call(Cmd("play", 0), Calm),
     Call(Cmd("stop", 0), Calm), Call(Cmd("forward", 0), Calm),
     Call(Cmd("rewind", 0), Calm), Call(Cmd("pause", 0), Calm)}

NextStream ==
    \/ Initialize
    \/ RequestPlayInterrupt
    \/ \E d \in Devices, c \in StreamCalls : Command(d, c.cmd, c.o)
    \/ \E n \in 1..MaxCandidates : StreamResolved(n)
    \/ \E ok \in BOOLEAN, vol \in {"ok", "fail"} : StreamMf(ok, vol)
    \/ \E ok \in BOOLEAN, vol \in {"ok", "fail"} : StreamDs(ok, vol)
    \/ Complete
    \/ Tick(Calm)

SpecStream == Init /\ [][NextStream]_vars

\* ------------------------------------ SpecSequencer: a station left alone
\* Emitter 0 is tuned to one of the three stations and started; then track
\* after track ends and the worker starts the next one, unless a stop for
\* another emitter takes the handle away.  The INI sets the ad interval and
\* the loop flag.
MaxAdInterval == 3        \* adIntervalSongs is 1..MaxAdInterval
MaxEmissions == 12        \* tracks the worker starts after one start()

SequencerConfigs ==
    {[IniConfig EXCEPT !.adIntervalSongs = k, !.loopPlaylist = l] :
        k \in 1..MaxAdInterval, l \in BOOLEAN}

InitSequencer == \E config \in SequencerConfigs : Constructed(config, Watching)

SequencerCalls ==
    {Call(CmdS("changePlaylist", "fm"), Calm), Call(CmdS("changePlaylist", "am"), Calm),
     Call(CmdS("changePlaylist", "talk"), Calm), Call(Cmd("start", 0), Calm),
     Call(Cmd("stop", 0), Calm)}

SequencerCallsFor(deviceId) ==
    IF deviceId = 0 THEN SequencerCalls ELSE {Call(Cmd("stop", 0), Calm)}

\* A turn of workerLoop that finds the track ended: updateTrackLocked(true).
TrackEnds ==
    /\ workerRunning_
    /\ wk.pc = "idle"
    /\ eng.state_ = "Playing"
    /\ seen.n < MaxEmissions
    /\ isTrackCompleteLocked(eng, Calm)
    /\ eng' = syncCurrentDeviceStateLocked(updateTrackLocked(eng, Calm).e)
    /\ seen' = Noted(Cmd("tick", 0), eng.state_, updateTrackLocked(eng, Calm).ret, Calm.open,
                   seen.n + 1)
    /\ UNCHANGED <<config_, playInterruptRequested_, wk, target, superseded, threadVars>>

NextSequencer ==
    \/ Initialize
    \/ \E d \in Devices : \E c \in SequencerCallsFor(d) : Command(d, c.cmd, c.o)
    \/ TrackEnds

SpecSequencer == InitSequencer /\ [][NextSequencer]_vars

\* ------------------------------------------- SpecTrack: setTrack by name
\* Emitter 0 is tuned to station AM (three songs), to the playlist (two) or
\* to the stream station, played, paused and skipped, with a backend that
\* now and then cannot open a file, and asked for tracks by every name of
\* TrackNames; the other emitters tune to AM and ask for a track.
NamedTrackCalls ==
    {Call(CmdS("changePlaylist", "am"), Calm), Call(CmdS("changePlaylist", "mix"), Calm),
     Call(CmdS("changePlaylist", "live"), Calm),
     Call(Cmd("play", 0), Calm), Call(Cmd("pause", 0), Calm),
     Call(Cmd("forward", 0), Calm)}
        \cup {Call(CmdS("setTrack", name), Calm) : name \in TrackNames}
        \cup {Call(CmdS("setTrack", name), [Calm EXCEPT !.open = "none"]) :
                  name \in {"outro", "intro.wav"}}

NamedTrackCallsFor(deviceId) ==
    IF deviceId = 0 THEN NamedTrackCalls
    ELSE {Call(CmdS("changePlaylist", "am"), Calm), Call(CmdS("setTrack", "outro"), Calm)}

NextNamedTrack ==
    \/ Initialize
    \/ \E d \in Devices : \E c \in NamedTrackCallsFor(d) :
           /\ ~(c.cmd.op = "play" /\ HasChan(switchToDeviceLocked(eng, d))
                   /\ Chan(switchToDeviceLocked(eng, d)).isStream)
           /\ Command(d, c.cmd, c.o)

SpecTrack == Constructed(IniConfig, Watching) /\ [][NextNamedTrack]_vars

\* ------------------------------------------ SpecGrace: the probe time
\* Emitter 0 plays the playlist (through MCI, or through Media Foundation
\* when MCI cannot open the file) or the stream station, is paused, resumed
\* and stopped while the steady clock goes on, and the worker's turn asks
\* the backend at every reading of the clock whether the track has ended.
MaxClock == 4000
Delays == {700, 1000}

GraceCalls ==
    {Call(CmdS("changePlaylist", "mix"), Calm), Call(CmdS("changePlaylist", "live"), Calm),
     Call(Cmd("play", 0), Calm), Call(Cmd("play", 0), [Calm EXCEPT !.open = "mf"]),
     Call(Cmd("pause", 0), Calm), Call(Cmd("stop", 0), Calm)}

\* Time passes.
Elapse(ms) ==
    /\ seen.now + ms <= MaxClock
    /\ seen' = [seen EXCEPT !.now = @ + ms]
    /\ UNCHANGED <<eng, config_, playInterruptRequested_, wk, target, superseded,
                   threadVars>>

\* The turn of workerLoop at the clock's reading: elapsed is now less
\* trackStartTime_; done is what the status query says.
ClockedTick(done) ==
    Tick([Calm EXCEPT !.grace = seen.now - eng.trackStartTime_ < minProbeTime(eng),
                      !.done = done])

NextGrace ==
    \/ Initialize
    \/ \E c \in GraceCalls : Command(0, c.cmd, c.o)
    \/ \E ms \in Delays : Elapse(ms)
    \/ \E done \in BOOLEAN : ClockedTick(done)
    \/ StreamResolved(1)
    \/ \E ok \in BOOLEAN : StreamMf(ok, "ok")
    \/ \E ok \in BOOLEAN : StreamDs(ok, "ok")
    \/ Complete

SpecGrace == Constructed(IniConfig, Watching) /\ [][NextGrace]_vars

\* ------------------------------------- SpecPlayback: the playback states
\* Emitter 0 is tuned to the playlist, to station FM or to the stream station
\* and taken through Stopped, Playing and Paused by every call that starts,
\* pauses, skips or stops, with a backend that now and then refuses; its
\* tracks and its stream end, and the next one may fail to start.  The other emitters are stopped, which takes
\* the handle away from emitter 0.  The INI sets the loop flag.
PlaybackConfigs == {[IniConfig EXCEPT !.loopPlaylist = l] : l \in BOOLEAN}

InitPlayback == \E config \in PlaybackConfigs : Constructed(config, Watching)

PlaybackCalls ==
    {Call(CmdS("changePlaylist", "mix"), Calm), Call(CmdS("changePlaylist", "fm"), Calm),
     Call(CmdS("changePlaylist", "live"), Calm),
     Call(Cmd("play", 0), Calm), Call(Cmd("play", 0), [Calm EXCEPT !.ctl = FALSE]),
     Call(Cmd("start", 0), Calm),
     Call(Cmd("pause", 0), Calm), Call(Cmd("pause", 0), [Calm EXCEPT !.ctl = FALSE]),
     Call(Cmd("stop", 0), Calm), Call(Cmd("forward", 0), Calm),
     Call(Cmd("rewind", 0), Calm), Call(Cmd("rewind", 0), [Calm EXCEPT !.late = TRUE]),
     Call(Cmd("setVolume", 150), Calm)}

PlaybackCallsFor(deviceId) ==
    IF deviceId = 0 THEN PlaybackCalls ELSE {Call(Cmd("stop", 0), Calm)}

PlaybackTicks == {Calm, [Calm EXCEPT !.done = FALSE], [Calm EXCEPT !.open = "noplay"]}

NextPlayback ==
    \/ Initialize
    \/ \E d \in Devices : \E c \in PlaybackCallsFor(d) : Command(d, c.cmd, c.o)
    \/ \E o \in PlaybackTicks : Tick(o)
    \/ StreamResolved(1)
    \/ \E ok \in BOOLEAN : StreamMf(ok, "ok")
    \/ \E ok \in BOOLEAN : StreamDs(ok, "ok")
    \/ Complete

SpecPlayback == InitPlayback /\ [][NextPlayback]_vars

\* ------------------------------------------ SpecTuned: a tuned emitter
\* Emitter 0 is given a gain and a fade override of its own, tuned to station
\* FM, played, paused and stopped while its tracks end; the other emitters
\* are stopped.
TunedCalls ==
    {Call(CmdS("changePlaylist", "fm"), Calm), Call(Cmd("play", 0), Calm),
     Call(Cmd("pause", 0), Calm), Call(Cmd("stop", 0), Calm),
     Call(Cmd("setVolume", 150), Calm), Call(CmdV("setFadeParams", <<0, 0, 0>>), Calm)}

TunedCallsFor(deviceId) ==
    IF deviceId = 0 THEN TunedCalls ELSE {Call(Cmd("stop", 0), Calm)}

NextTuned ==
    \/ Initialize
    \/ \E d \in Devices : \E c \in TunedCallsFor(d) : Command(d, c.cmd, c.o)
    \/ Tick(Calm)

SpecTuned == Constructed(IniConfig, Watching) /\ [][NextTuned]_vars

\* ------------------------------------- SpecFallback: files that fail
\* Emitter 0 plays the playlist and station FM from files the OS may refuse:
\* MCI opens and plays the file, opens it and fails to play it, or cannot
\* open it, and then the Media Foundation fallback starts it, fails, or is
\* cut short by a play interrupt.  The other emitters are stopped.
FileOutcomes ==
    {[Calm EXCEPT !.open = f] : f \in {"mci", "noplay", "mf", "none"}}
        \cup {[Calm EXCEPT !.open = "mf", !.intr = TRUE]}

FallbackCalls ==
    {Call(CmdS("changePlaylist", "mix"), Calm), Call(CmdS("changePlaylist", "fm"), Calm),
     Call(Cmd("pause", 0), Calm), Call(Cmd("stop", 0), Calm)}
        \cup {Call(Cmd("play", 0), o) : o \in FileOutcomes}

FallbackCallsFor(deviceId) ==
    IF deviceId = 0 THEN FallbackCalls ELSE {Call(Cmd("stop", 0), Calm)}

NextFallback ==
    \/ Initialize
    \/ \E d \in Devices : \E c \in FallbackCallsFor(d) : Command(d, c.cmd, c.o)
    \/ \E o \in FileOutcomes : Tick(o)

SpecFallback == Constructed(IniConfig, Watching) /\ [][NextFallback]_vars

\* ---------------------------------------- SpecSources: the next source
\* Emitter 0 is taken from source to source by both "next source" calls, in
\* every category and in one that does not exist, tuned to station FM by
\* name, played and skipped forward.  The other emitters are stopped.  The
\* INI sets the rescan flag: without it the catalog is empty until
\* initialize() has scanned.
Categories == 0..3

SourcesConfigs == {[IniConfig EXCEPT !.autoRescanOnChangePlaylist = a] : a \in BOOLEAN}

SourcesCalls ==
    {Call(Cmd("selectNextSource", n), Calm) : n \in Categories}
        \cup {Call(Cmd("changeToNextSource", n), Calm) : n \in Categories}
        \cup {Call(CmdS("changePlaylist", "fm"), Calm), Call(Cmd("play", 0), Calm),
              Call(Cmd("forward", 0), Calm)}

SourcesCallsFor(deviceId) ==
    IF deviceId = 0 THEN SourcesCalls ELSE {Call(Cmd("stop", 0), Calm)}

NextSources ==
    \/ Initialize
    \/ \E d \in Devices : \E c \in SourcesCallsFor(d) : Command(d, c.cmd, c.o)
    \/ StreamResolved(1)
    \/ StreamMf(TRUE, "ok")
    \/ Complete

SpecSources ==
    (\E config \in SourcesConfigs : Constructed(config, Watching)) /\ [][NextSources]_vars

\* ------------------------------------------ SpecFade: the fade updates
\* Emitter 0 plays a file of the playlist (MCI) or the stream (Media
\* Foundation, or DirectShow when Media Foundation fails), is moved next to
\* the player, to the player's right and out of earshot, and is made louder;
\* between the calls the worker recomputes the levels while the track goes
\* on.  The backend accepts every volume call.  The INI turns the stereo pan
\* on or off.  The other emitters are stopped.
FadeConfigs == {[IniConfig EXCEPT !.enableSpatialPan = p] : p \in BOOLEAN}

InitFade == \E config \in FadeConfigs : Constructed(config, Watching)

FadeCalls ==
    {Call(CmdS("changePlaylist", "mix"), Calm), Call(CmdS("changePlaylist", "live"), Calm),
     Call(Cmd("play", 0), Calm), Call(Cmd("stop", 0), Calm),
     Call(Cmd("setVolume", 150), Calm),
     Call(CmdV("setPositions", <<Origin.x, Origin.y, Origin.z>>), Calm),
     Call(CmdV("setPositions", <<East.x, East.y, East.z>>), Calm),
     Call(CmdV("setPositions", <<FarEast.x, FarEast.y, FarEast.z>>), Calm)}

FadeCallsFor(deviceId) ==
    IF deviceId = 0 THEN FadeCalls ELSE {Call(Cmd("stop", 0), Calm)}

NextFade ==
    \/ Initialize
    \/ \E d \in Devices : \E c \in FadeCallsFor(d) : Command(d, c.cmd, c.o)
    \/ Tick([Calm EXCEPT !.done = FALSE])
    \/ StreamResolved(1)
    \/ \E ok \in BOOLEAN : StreamMf(ok, "ok")
    \/ StreamDs(TRUE, "ok")
    \/ Complete

SpecFade == InitFade /\ [][NextFade]_vars

\* ------------------------------------------ SpecCurve: the fade curve
\* Emitter 0 plays a file of the playlist while it is carried away from the
\* player along the y axis, step by step and back, is given a gain between
\* silent and beyond the maximum, and a fade override of its own.  The INI
\* sets the minimum fade distance and the stereo pan.
MaxFadeDistance == 6      \* distances are 0..MaxFadeDistance + 1

CurveConfigs ==
    {[IniConfig EXCEPT !.minFadeDistance = a, !.maxFadeDistance = MaxFadeDistance,
                       !.enableSpatialPan = p] :
        a \in {0, 2}, p \in BOOLEAN}

InitCurve == \E config \in CurveConfigs : Constructed(config, Watching)

CurveCalls ==
    {Call(CmdS("changePlaylist", "mix"), Calm), Call(Cmd("play", 0), Calm),
     Call(CmdV("setFadeParams", <<1, 4, 0>>), Calm)}
    \cup {Call(Cmd("setVolume", g), Calm) : g \in {0, 50, 100, 250}}
    \cup {Call(CmdV("setPositions", <<0, y, 0>>), Calm) : y \in 0..(MaxFadeDistance + 1)}

NextCurve ==
    \/ Initialize
    \/ \E c \in CurveCalls : Command(0, c.cmd, c.o)

SpecCurve == InitCurve /\ [][NextCurve]_vars

\* ------------------------------------------ SpecVolume: the gain
\* The gain of emitter 0 is set below, inside and above its range and taken
\* up and down by the default step and by a large one; the other emitters
\* are given a gain of their own.
Percentages == {-50, 120, 500}
Steps == {-3, 0, 80}

VolumeCalls ==
    {Call(Cmd("setVolume", v), Calm) : v \in Percentages}
    \cup {Call(Cmd("volumeUp", step), Calm) : step \in Steps}
    \cup {Call(Cmd("volumeDown", step), Calm) : step \in Steps}

VolumeCallsFor(deviceId) ==
    IF deviceId = 0 THEN VolumeCalls ELSE {Call(Cmd("setVolume", 30), Calm)}

NextVolume ==
    \/ Initialize
    \/ \E d \in Devices : \E c \in VolumeCallsFor(d) : Command(d, c.cmd, c.o)

SpecVolume == Constructed(IniConfig, Watching) /\ [][NextVolume]_vars

\* ------------------------------------------ SpecKnobs: the fade override
\* The fade override of emitter 0 is set, set with a maximum below the
\* minimum and no pan distance, and reset by a negative first, second or
\* third argument, while it plays a file or is silent.  The other emitters
\* are given an override of their own.
KnobCalls ==
    {Call(CmdS("changePlaylist", "mix"), Calm), Call(Cmd("play", 0), Calm)}
    \cup {Call(CmdV("setFadeParams", v), Calm) :
             v \in {<<-1, 900, 300>>, <<200, -1, 300>>, <<200, 900, -1>>,
                    <<200, 900, 300>>, <<700, 100, 0>>}}

KnobCallsFor(deviceId) ==
    IF deviceId = 0 THEN KnobCalls
    ELSE {Call(CmdV("setFadeParams", <<100, 400, 50>>), Calm)}

NextKnobs ==
    \/ Initialize
    \/ \E d \in Devices : \E c \in KnobCallsFor(d) : Command(d, c.cmd, c.o)

SpecKnobs == Constructed(IniConfig, Watching) /\ [][NextKnobs]_vars

\* ------------------------------- SpecInterrupted: calls that interrupt
\* Emitter 0 is tuned to the stream station or to the playlist and played;
\* the stream ends and the worker reconnects it, and a file ends and the
\* worker starts the next one.  Selections, one of them of a channel that
\* is not in the library, and skips come in at any moment, also while a
\* connection attempt runs: the call raises the interrupt flag at once and
\* its closure runs when the worker is free.  The other emitters ask for the
\* channel that is not there.
InterruptingCalls ==
    {CmdS("changePlaylist", "live"), CmdS("changePlaylist", "mix"),
     CmdS("changePlaylist", "nope"), Cmd("forward", 0)}

InterruptingCallsFor(deviceId) ==
    IF deviceId = 0 THEN InterruptingCalls ELSE {CmdS("changePlaylist", "nope")}

NextInterrupted ==
    \/ Initialize
    \/ \E d \in Devices : \E cmd \in InterruptingCallsFor(d) : Asked(d, cmd)
    \/ Answered(Calm)
    \/ Command(0, Cmd("play", 0), Calm)
    \/ \E o \in {Calm, [Calm EXCEPT !.done = FALSE]} : Tick(o)
    \/ StreamResolved(1)
    \/ \E ok \in BOOLEAN : StreamMf(ok, "ok")
    \/ \E ok \in BOOLEAN : StreamDs(ok, "ok")
    \/ Complete

SpecInterrupted == Constructed(IniConfig, Watching) /\ [][NextInterrupted]_vars

\* ------------------------------------- SpecResolver: wrapper playlists
\* Emitter 0 is tuned to the three stream stations (a mount point, a wrapper
\* playlist, a direct audio file) and played; the resolver fetches the URL
\* and whatever the playlists name, level by level, while the web answers as
\* it likes (wrappers that name each other included) and calls that
\* interrupt come in.
ResolverCalls ==
    {Call(CmdS("changePlaylist", "live"), Calm), Call(CmdS("changePlaylist", "jazz"), Calm),
     Call(CmdS("changePlaylist", "news"), Calm), Call(Cmd("play", 0), Calm)}

NextResolver ==
    \/ Initialize
    \/ RequestPlayInterrupt
    \/ \E c \in ResolverCalls : Command(0, c.cmd, c.o)
    \/ \E response \in Responses : resolvePlayableStreamUrl(response)
    \/ Resolved(1)
    \/ StreamMf(TRUE, "ok")
    \/ Complete

SpecResolver == Constructed(IniConfig, Watching) /\ [][NextResolver]_vars

\* The resolver gets its turns: every fetch returns (kResolverTimeoutMs).
FairResolver ==
    SpecResolver /\ WF_vars(\E response \in Responses : resolvePlayableStreamUrl(response))

\* --------------------------------------- SpecThreads: the dispatch
\* Spec, SpecStation and SpecStream take a closure as one step.  SpecThreads
\* puts the threads around it: the callers in runBoolCommandForDevice,
\* runAsyncCommandForDevice, isPlaying and shutdown, the worker in
\* workerLoop, mutex_ (mutexOwner), the condition variable (a waiting thread
\* goes on when it can take mutex_ again) and commandQueue_.
MaxTickets == 2

Alive == workerPc # "terminated"

\* An inline test that never sends a closure to the worker.
runsInlineAlways(thread) == TRUE

\* The test at the head of runBoolCommandForDevice and of
\* runAsyncCommandForDevice: the closure runs on the calling thread.
runsInline(thread) == ~workerRunning_ \/ thread = workerThreadId_

\* A worker that takes the closure queued last.
NewestCommand(queue) == queue[Len(queue)]

\* commandQueue_.front() and pop_front().
NextCommand(queue) == Head(queue)
RemainingCommands(queue) == Tail(queue)

\* The closure shutdown hands to runBoolCommandForDevice.
shutdownStop(e) ==
    [e |-> syncCurrentDeviceStateLocked(
               [stopPlaybackDeviceLocked(e, TRUE) EXCEPT
                    !.state_ = "Stopped", !.mode_ = "None", !.trackStartValid_ = FALSE]),
     ret |-> "true"]

\* shutdownDirectShowLocked and shutdownMediaFoundationLocked release the
\* filter graph and the player whatever backend_ says.
shutdownBackendsLocked(e) ==
    [e EXCEPT !.osHandle = IF @ \in {"mf", "ds"} THEN "none" ELSE @,
              !.osVolume = IF e.osHandle \in {"mf", "ds"} THEN <<-1, -1>> ELSE @]

\* The end of workerLoop, after the loop.
workerExitLocked(e) ==
    syncCurrentDeviceStateLocked(
        shutdownBackendsLocked(
            [stopPlaybackDeviceLocked(e, TRUE) EXCEPT
                 !.state_ = "Stopped", !.mode_ = "None", !.trackStartValid_ = FALSE]))

\* The maintenance of one turn of workerLoop.
maintainLocked(e, o) ==
    IF e.state_ # "Playing" THEN e
    ELSE IF isTrackCompleteLocked(e, o)
    THEN syncCurrentDeviceStateLocked(updateTrackLocked(e, o).e)
    ELSE syncCurrentDeviceStateLocked(updateFadeVolumeLocked(e, o.vol))

\* What the closure of a call does between switchToDeviceLocked and the
\* return of command().
RunQueued(e, deviceId, call) ==
    IF call.cmd.op = "shutdown" THEN shutdownStop(switchToDeviceLocked(e, deviceId))
    ELSE RunClosure(e, deviceId, call.cmd, call.o)

\* callers once the public function c is in has returned result.
Returned(c, result) == [callers EXCEPT ![c] = [CallerIdle EXCEPT !.result = result]]

\* callers once runBoolCommandForDevice has returned result to c: shutdown
\* goes on to stop the worker.
commandReturns(c, result) ==
    IF callers[c].op = "shutdown"
    THEN [callers EXCEPT ![c] = [CallerIdle EXCEPT !.pc = "notify", !.op = "shutdown"]]
    ELSE Returned(c, result)

\* The closures queued so far and those the threads at the door will queue.
Outstanding ==
    (nextTicket - 1) + Cardinality({c \in CallerIds : callers[c].pc \in {"read", "enter"}})

\* A thread calls a mutating function: requestPlayInterrupt where the
\* function has it, then the thread stands before mutex_.
Invoke(c, deviceId, call, completion) ==
    /\ Alive
    /\ callers[c].pc = "idle"
    /\ Outstanding < MaxTickets
    /\ callers' = [callers EXCEPT ![c] =
                       [CallerIdle EXCEPT !.pc = "enter",
                                          !.op = IF call.cmd.op = "playAsync" THEN "async"
                                                 ELSE "command",
                                          !.dev = deviceId, !.call = call,
                                          !.completion = completion]]
    /\ playInterruptRequested_' = (playInterruptRequested_ \/ Interrupting(call.cmd))
    /\ UNCHANGED <<eng, config_, wk, target, superseded, seen, workerRunning_, stopWorker_,
                   workerThreadId_, commandQueue_, mutexOwner, workerPc, current,
                   nextTicket>>

\* The closure the thread queues.
queuedCommand(c) ==
    [ticket |-> nextTicket, dev |-> callers[c].dev, call |-> callers[c].call,
     caller |-> IF callers[c].op = "async" THEN NoThread ELSE c,
     completion |-> callers[c].completion]

\* The thread takes mutex_ and either keeps it to run the closure itself or
\* queues the closure: playAsync returns at once, the other functions
\* enter cv_.wait_for, which gives mutex_ back.
Enter(c) ==
    /\ Alive
    /\ callers[c].pc = "enter"
    /\ mutexOwner = NoThread
    /\ IF runsInline(c)
       THEN /\ mutexOwner' = c
            /\ callers' = [callers EXCEPT ![c].pc = "inline"]
            /\ UNCHANGED <<commandQueue_, nextTicket>>
       ELSE /\ mutexOwner' = NoThread
            /\ commandQueue_' = Append(commandQueue_, queuedCommand(c))
            /\ nextTicket' = nextTicket + 1
            /\ callers' = IF callers[c].op = "async" THEN Returned(c, "true")
                          ELSE [callers EXCEPT ![c].pc = "wait", ![c].ticket = nextTicket]
    /\ UNCHANGED <<eng, config_, playInterruptRequested_, wk, target, superseded, seen,
                   workerRunning_, stopWorker_, workerThreadId_, workerPc, current>>

\* The inline paths, r being what the closure did.  runBoolCommandForDevice
\* has no handler around command(): what it throws leaves the function
\* before syncCurrentDeviceStateLocked.  runAsyncCommandForDevice catches,
\* syncs and calls the completion handler with mutex_ held: a handler that
\* calls the engine locks a std::mutex its thread owns, which the build
\* answers by blocking or by std::system_error.
inlineEnds(c, r) ==
    IF callers[c].op = "async"
    THEN /\ eng' = syncCurrentDeviceStateLocked(r.e)
         /\ \/ /\ callers[c].completion = "none"
               /\ callers' = Returned(c, "true")
               /\ mutexOwner' = NoThread
            \/ /\ callers[c].completion = "reenter"
               /\ callers' = [callers EXCEPT ![c].pc = "selflock"]
               /\ mutexOwner' = c
            \/ /\ callers[c].completion = "reenter"
               /\ callers' = Returned(c, "lockerror")
               /\ mutexOwner' = NoThread
    ELSE IF r.ret = "throw"
    THEN /\ eng' = r.e
         /\ callers' = commandReturns(c, "escaped")
         /\ mutexOwner' = NoThread
    ELSE /\ eng' = syncCurrentDeviceStateLocked(r.e)
         /\ callers' = commandReturns(c, r.ret)
         /\ mutexOwner' = NoThread

RunInline(c) ==
    /\ Alive
    /\ callers[c].pc = "inline"
    /\ inlineEnds(c, RunQueued(eng, callers[c].dev, callers[c].call))
    /\ playInterruptRequested_' = FALSE
    /\ UNCHANGED <<config_, wk, target, superseded, seen, workerRunning_, stopWorker_,
                   workerThreadId_, commandQueue_, workerPc, current, nextTicket>>

\* cv_.wait_for returns to a thread that was notified or woke, once the
\* predicate holds and mutex_ is free.
Wake(c) ==
    /\ Alive
    /\ callers[c].pc = "wait"
    /\ callers[c].done \/ ~workerRunning_
    /\ mutexOwner = NoThread
    /\ callers' = commandReturns(c, IF callers[c].done THEN callers[c].pending ELSE "false")
    /\ UNCHANGED <<eng, config_, playInterruptRequested_, wk, target, superseded, seen,
                   workerRunning_, stopWorker_, workerThreadId_, commandQueue_,
                   mutexOwner, workerPc, current, nextTicket>>

\* kCommandWaitTimeout has passed: wait_for is to return, and takes mutex_
\* first.
Timeout(c) ==
    /\ Alive
    /\ callers[c].pc = "wait"
    /\ callers' = [callers EXCEPT ![c].pc = "timedout", ![c].waited = kCommandWaitTimeout]
    /\ UNCHANGED <<eng, config_, playInterruptRequested_, wk, target, superseded, seen,
                   workerRunning_, stopWorker_, workerThreadId_, commandQueue_,
                   mutexOwner, workerPc, current, nextTicket>>

\* A timeout that takes the caller's closure out of the queue.
ReacquireWithdraws(c) ==
    /\ Alive
    /\ callers[c].pc = "timedout"
    /\ mutexOwner = NoThread
    /\ callers' = commandReturns(c, IF callers[c].done THEN callers[c].pending ELSE "false")
    /\ commandQueue_' = SelectSeq(commandQueue_, LAMBDA q : q.ticket # callers[c].ticket)
    /\ UNCHANGED <<eng, config_, playInterruptRequested_, wk, target, superseded, seen,
                   workerRunning_, stopWorker_, workerThreadId_,
                   mutexOwner, workerPc, current, nextTicket>>

\* mutex_ is free: wait_for returns the predicate, the function returns
\* pending->result or false.
Reacquire(c) ==
    /\ Alive
    /\ callers[c].pc = "timedout"
    /\ mutexOwner = NoThread
    /\ callers' = commandReturns(c, IF callers[c].done THEN callers[c].pending ELSE "false")
    /\ UNCHANGED <<eng, config_, playInterruptRequested_, wk, target, superseded, seen,
                   workerRunning_, stopWorker_, workerThreadId_, commandQueue_,
                   mutexOwner, workerPc, current, nextTicket>>

\* isPlaying: the lock_guard, then the read.
Read(c, deviceId) ==
    /\ Alive
    /\ callers[c].pc = "idle"
    /\ mutexOwner = NoThread
    /\ mutexOwner' = c
    /\ callers' = [callers EXCEPT ![c] = [CallerIdle EXCEPT !.pc = "reading", !.op = "read",
                                                             !.dev = deviceId]]
    /\ UNCHANGED <<eng, config_, playInterruptRequested_, wk, target, superseded, seen,
                   workerRunning_, stopWorker_, workerThreadId_, commandQueue_,
                   workerPc, current, nextTicket>>

ReadDone(c) ==
    /\ Alive
    /\ callers[c].pc = "reading"
    /\ mutexOwner' = NoThread
    /\ callers' = Returned(c, IF isPlaying(eng, callers[c].dev) THEN "true" ELSE "false")
    /\ UNCHANGED <<eng, config_, playInterruptRequested_, wk, target, superseded, seen,
                   workerRunning_, stopWorker_, workerThreadId_, commandQueue_,
                   workerPc, current, nextTicket>>

\* shutdown: the first block reads workerRunning_; without a worker the
\* second block releases the backends and the function returns.
ShutdownBegin(c) ==
    /\ Alive
    /\ callers[c].pc = "idle"
    /\ mutexOwner = NoThread
    /\ Outstanding < MaxTickets
    /\ IF workerRunning_
       THEN /\ callers' = [callers EXCEPT ![c] = [CallerIdle EXCEPT !.pc = "read",
                                                                    !.op = "shutdown"]]
            /\ eng' = eng
       ELSE /\ callers' = Returned(c, "none")
            /\ eng' = shutdownBackendsLocked(eng)
    /\ UNCHANGED <<config_, playInterruptRequested_, wk, target, superseded, seen,
                   workerRunning_, stopWorker_, workerThreadId_, commandQueue_,
                   mutexOwner, workerPc, current, nextTicket>>

\* The argument of runBoolCommandForDevice is currentDeviceId_, read without
\* mutex_: the value of before or of after the switch a running closure makes.
ShutdownRead(c) ==
    /\ Alive
    /\ callers[c].pc = "read"
    /\ callers' = [callers EXCEPT ![c].pc = "enter", ![c].dev = eng.currentDeviceId_,
                                  ![c].call = Call(Cmd("shutdown", 0), Calm)]
    /\ UNCHANGED <<eng, config_, playInterruptRequested_, wk, target, superseded, seen,
                   workerRunning_, stopWorker_, workerThreadId_, commandQueue_,
                   mutexOwner, workerPc, current, nextTicket>>

\* stopWorker_ = true; cv_.notify_all().
ShutdownNotify(c) ==
    /\ Alive
    /\ callers[c].pc = "notify"
    /\ mutexOwner = NoThread
    /\ stopWorker_' = TRUE
    /\ callers' = [callers EXCEPT ![c].pc = "join"]
    /\ UNCHANGED <<eng, config_, playInterruptRequested_, wk, target, superseded, seen,
                   workerRunning_, workerThreadId_, commandQueue_, mutexOwner, workerPc,
                   current, nextTicket>>

\* worker_.join() returns when workerLoop has returned; the last block.
ShutdownJoin(c) ==
    /\ Alive
    /\ callers[c].pc = "join"
    /\ workerPc = "exited"
    /\ mutexOwner = NoThread
    /\ workerRunning_' = FALSE
    /\ workerThreadId_' = NoThread
    /\ commandQueue_' = <<>>
    /\ callers' = Returned(c, "none")
    /\ UNCHANGED <<eng, config_, playInterruptRequested_, wk, target, superseded, seen,
                   stopWorker_, mutexOwner, workerPc, current, nextTicket>>

\* The worker holds mutex_ at a test of the loop: it leaves on stopWorker_,
\* takes the closure at the front of the queue, or goes to emptyPc.
workerResumes(emptyPc) ==
    IF stopWorker_
    THEN /\ workerPc' = "exiting"
         /\ mutexOwner' = Worker
         /\ UNCHANGED <<commandQueue_, current>>
    ELSE IF commandQueue_ # <<>>
    THEN /\ workerPc' = "running"
         /\ mutexOwner' = Worker
         /\ current' = NextCommand(commandQueue_)
         /\ commandQueue_' = RemainingCommands(commandQueue_)
    ELSE /\ workerPc' = emptyPc
         /\ mutexOwner' = IF emptyPc = "cvwait" THEN NoThread ELSE Worker
         /\ UNCHANGED <<commandQueue_, current>>

\* The thread initialize made enters workerLoop: mutex_, workerThreadId_, the
\* first test and the first wait_for (which gives mutex_ back when there is
\* nothing to do).
WorkerStart ==
    /\ workerPc = "start"
    /\ mutexOwner = NoThread
    /\ workerThreadId_' = Worker
    /\ workerResumes("cvwait")
    /\ UNCHANGED <<eng, config_, playInterruptRequested_, wk, target, superseded, seen,
                   workerRunning_, stopWorker_, callers, nextTicket>>

\* wait_for returns (notified or after its 100 ms) with mutex_ taken.
WorkerWake ==
    /\ workerPc = "cvwait"
    /\ mutexOwner = NoThread
    /\ workerResumes("tick")
    /\ UNCHANGED <<eng, config_, playInterruptRequested_, wk, target, superseded, seen,
                   workerRunning_, stopWorker_, workerThreadId_, callers, nextTicket>>

\* callers once the closure cmd has set pending->result and pending->done;
\* nobody reads them when the thread has left wait_for, and playAsync has no
\* PendingResult.
Delivered(cmd, result) ==
    IF cmd.caller \notin CallerIds THEN callers
    ELSE IF callers[cmd.caller].ticket # cmd.ticket THEN callers
    ELSE [callers EXCEPT ![cmd.caller].done = TRUE, ![cmd.caller].pending = result]

\* The queued closure, r being what switchToDeviceLocked and command() did:
\* the handlers turn what was thrown into false, then
\* syncCurrentDeviceStateLocked and pending->done.  The closure of playAsync
\* calls the completion handler with mutex_ held by the worker; a handler that
\* calls the engine locks a std::mutex its thread owns (the worker blocks, or
\* std::system_error leaves workerLoop and the process ends).
queuedEnds(cmd, r) ==
    /\ eng' = syncCurrentDeviceStateLocked(r.e)
    /\ callers' = Delivered(cmd, IF r.ret = "throw" THEN "false" ELSE r.ret)
    /\ IF cmd.completion = "reenter"
       THEN workerPc' \in {"selflock", "terminated"} /\ current' = cmd
       ELSE workerPc' = "drain" /\ current' = NoCommand

WorkerRun ==
    /\ workerPc = "running"
    /\ queuedEnds(current, RunQueued(eng, current.dev, current.call))
    /\ playInterruptRequested_' = FALSE
    /\ UNCHANGED <<config_, wk, target, superseded, seen, workerRunning_, stopWorker_,
                   workerThreadId_, commandQueue_, mutexOwner, nextTicket>>

\* The calls whose backend call (the driver's open of the track) never
\* returns in SpecThreads.
HangingCalls == {"play"}

WorkerHang ==
    /\ workerPc = "running"
    /\ current.call.cmd.op \in HangingCalls
    /\ workerPc' = "hung"
    /\ UNCHANGED <<eng, config_, playInterruptRequested_, wk, target, superseded, seen,
                   workerRunning_, stopWorker_, workerThreadId_, commandQueue_,
                   mutexOwner, current, callers, nextTicket>>

\* After a closure: the next one, or the maintenance.
WorkerNext ==
    /\ workerPc = "drain"
    /\ workerResumes("tick")
    /\ UNCHANGED <<eng, config_, playInterruptRequested_, wk, target, superseded, seen,
                   workerRunning_, stopWorker_, workerThreadId_, callers, nextTicket>>

\* The maintenance, then the next wait_for gives mutex_ back.
WorkerTick(o) ==
    /\ workerPc = "tick"
    /\ eng' = maintainLocked(eng, o)
    /\ workerPc' = "cvwait"
    /\ mutexOwner' = NoThread
    /\ UNCHANGED <<config_, playInterruptRequested_, wk, target, superseded, seen,
                   workerRunning_, stopWorker_, workerThreadId_, commandQueue_,
                   current, callers, nextTicket>>

\* The end of workerLoop.
WorkerExit ==
    /\ workerPc = "exiting"
    /\ eng' = workerExitLocked(eng)
    /\ workerThreadId_' = NoThread
    /\ workerPc' = "exited"
    /\ mutexOwner' = NoThread
    /\ UNCHANGED <<config_, playInterruptRequested_, wk, target, superseded, seen,
                   workerRunning_, stopWorker_, commandQueue_, current, callers,
                   nextTicket>>

\* The first thread is the game's script thread (it selects, plays, skips a
\* track whose name the log line cannot convert, and plays on a second
\* emitter); the second is the plugin's (playAsync with and without a handler
\* that calls stop, isPlaying, shutdown).
ScriptCalls ==
    {[dev |-> 0, call |-> Call(CmdS("changePlaylist", "mix"), Calm)],
     [dev |-> 0, call |-> Call(Cmd("play", 0), Calm)],
     [dev |-> 0, call |-> Call(Cmd("forward", 0), [Calm EXCEPT !.throws = TRUE])],
     [dev |-> 1, call |-> Call(Cmd("play", 0), Calm)]}

Completions == {"none", "reenter"}

NextThreads ==
    \/ Initialize
    \/ \E k \in ScriptCalls : Invoke("c1", k.dev, k.call, "none")
    \/ \E h \in Completions : Invoke("c2", 0, Call(Cmd("playAsync", 0), Calm), h)
    \/ \E c \in CallerIds : Enter(c)
    \/ \E c \in CallerIds : RunInline(c)
    \/ \E c \in CallerIds : Wake(c)
    \/ \E c \in CallerIds : Timeout(c)
    \/ \E c \in CallerIds : Reacquire(c)
    \/ Read("c2", 0)
    \/ ReadDone("c2")
    \/ ShutdownBegin("c2")
    \/ ShutdownRead("c2")
    \/ ShutdownNotify("c2")
    \/ ShutdownJoin("c2")
    \/ WorkerStart
    \/ WorkerWake
    \/ WorkerRun
    \/ WorkerHang
    \/ WorkerNext
    \/ \E o \in {Calm, [Calm EXCEPT !.done = FALSE]} : WorkerTick(o)
    \/ WorkerExit

SpecThreads == Init /\ [][NextThreads]_vars

\* ----------------------------------------- SpecAbandon: callers give up
\* The engine runs and is not shut down; every backend call returns.  The
\* script thread selects the playlist and the station on two emitters, the
\* plugin's thread stops emitter 0; the worker is slow at times, so that
\* kCommandWaitTimeout runs out for a caller whose closure still waits in
\* the queue or is being run.
AbandonCalls ==
    {[dev |-> 0, call |-> Call(CmdS("changePlaylist", "mix"), Calm)],
     [dev |-> 0, call |-> Call(CmdS("changePlaylist", "fm"), Calm)],
     [dev |-> 1, call |-> Call(CmdS("changePlaylist", "mix"), Calm)]}

\* A step of the worker thread.
WorkerStep ==
    \/ WorkerStart
    \/ WorkerWake
    \/ WorkerRun
    \/ WorkerNext
    \/ WorkerTick(Calm)

NextAbandon ==
    \/ Initialize
    \/ \E k \in AbandonCalls : Invoke("c1", k.dev, k.call, "none")
    \/ Invoke("c2", 0, Call(Cmd("stop", 0), Calm), "none")
    \/ \E c \in CallerIds : Enter(c)
    \/ \E c \in CallerIds : RunInline(c)
    \/ \E c \in CallerIds : Wake(c)
    \/ \E c \in CallerIds : Timeout(c)
    \/ \E c \in CallerIds : Reacquire(c)
    \/ WorkerStep

SpecAbandon == Init /\ [][NextAbandon]_vars

\* The worker thread can take a step: it holds mutex_, or it stands at
\* wait_for and mutex_ is free.
WorkerReady ==
    \/ workerPc \in {"running", "drain", "tick", "exiting"}
    \/ workerPc \in {"start", "cvwait"} /\ mutexOwner = NoThread

\* The step the worker thread takes when it is scheduled, as its position
\* shows it: every step of WorkerStep moves workerPc, and once the thread
\* is started no step of another thread does.
WorkerScheduled ==
    /\ WorkerReady
    /\ workerPc' \in {"cvwait", "running", "drain", "tick", "exiting", "exited"}
    /\ workerPc' # workerPc

\* The worker thread is scheduled.
FairAbandon == SpecAbandon /\ WF_workerPc(WorkerScheduled)

\* ------------------------------------- SpecShutdown: calls and shutdown
\* Every backend call returns.  The script thread selects the playlist on
\* emitter 1; the plugin's thread calls playAsync, with and without a completion
\* handler that calls the engine, and shutdown, at any moment.  Every thread
\* is scheduled, wait_for times out, and a thread that finds mutex_ free
\* again and again gets it.
InlineScheduled(c) ==
    callers[c].pc = "inline" /\ mutexOwner = c /\ mutexOwner' = NoThread

NextShutdown ==
    \/ Initialize
    \/ Invoke("c1", 1, Call(CmdS("changePlaylist", "mix"), Calm), "none")
    \/ \E h \in Completions : Invoke("c2", 0, Call(Cmd("playAsync", 0), Calm), h)
    \/ \E c \in CallerIds : Enter(c)
    \/ \E c \in CallerIds : RunInline(c)
    \/ \E c \in CallerIds : Wake(c)
    \/ \E c \in CallerIds : Timeout(c)
    \/ \E c \in CallerIds : Reacquire(c)
    \/ ShutdownBegin("c2")
    \/ ShutdownRead("c2")
    \/ ShutdownNotify("c2")
    \/ ShutdownJoin("c2")
    \/ WorkerStep
    \/ WorkerExit

SpecShutdown == Init /\ [][NextShutdown]_vars

FairShutdown ==
    /\ SpecShutdown
    /\ WF_workerPc(WorkerScheduled)
    /\ \A c \in CallerIds :
           /\ SF_vars(Enter(c)) /\ WF_mutexOwner(InlineScheduled(c))
           /\ SF_vars(Wake(c)) /\ WF_vars(Timeout(c)) /\ SF_vars(Reacquire(c))
    /\ WF_vars(ShutdownRead("c2")) /\ SF_vars(ShutdownNotify("c2"))
    /\ SF_vars(ShutdownJoin("c2"))

\* ------------------------------------------------------------------ claims
\* C1 (as stated): a caller whose command hangs in its backend call gets
\* false once kCommandWaitTimeout has passed: when the wait of a caller has
\* run out and the worker is inside the backend call of that caller's
\* command for good, wait_for can take mutex_ and return.
TimeoutUnblocksCaller ==
    \A c \in CallerIds :
        (/\ callers[c].pc = "timedout"
         /\ callers[c].waited = kCommandWaitTimeout
         /\ workerPc = "hung"
         /\ current.ticket = callers[c].ticket)
        => mutexOwner = NoThread

\* C2 (as stated): a mutating call made on the worker thread, by a completion
\* handler the worker runs, or made while no worker runs, is executed inline
\* and returns: no thread ends up waiting for the mutex_ it holds itself,
\* and none is ended by the error of locking it twice.
ReentrantCallReturns ==
    /\ workerPc \notin {"selflock", "terminated"}
    /\ \A c \in CallerIds : callers[c].pc # "selflock" /\ callers[c].result # "lockerror"

\* C6: the worker takes a closure only when the one before has run to its
\* end, the closure it takes is the one queued first among those waiting,
\* queuing or taking a closure changes nothing of the engine, and when the
\* closure has run the engine is on the device the call named.
FifoOrder ==
    [][/\ (current' # current /\ current' # NoCommand) =>
              /\ workerPc # "running"
              /\ \A i \in DOMAIN commandQueue_ : commandQueue_[i].ticket >= current'.ticket
              /\ eng' = eng
       /\ Len(commandQueue_') > Len(commandQueue_) => eng' = eng
       /\ (workerPc = "running" /\ workerPc' \in {"drain", "selflock", "terminated"}) =>
              eng'.currentDeviceId_ = current.dev]_vars

\* Two closures were queued; the first ran and moved the engine to device 1
\* (its caller has not been let back in yet), and the worker has taken the
\* second, which is for device 0.
FifoOrderWitness ==
    /\ workerPc = "running"
    /\ current.ticket = 2
    /\ current.dev = 0
    /\ eng.currentDeviceId_ = 1
    /\ callers["c1"].pc = "wait"
    /\ callers["c1"].done

\* What the backends and the device switch own.
BackendView(e) ==
    <<e.osHandle, e.osVolume, e.backend_, e.state_, e.currentDeviceId_,
      e.currentTrackPath_>>

\* C7: while workerRunning_, a step that changes the backend state (a command
\* body, a device switch, the maintenance, the end of the loop) is a step of
\* the worker holding mutex_; a caller inside an accessor holds mutex_,
\* so the worker is then in none of them; and no caller runs a closure.
WorkerOnly ==
    [][/\ (workerRunning_ /\ BackendView(eng') # BackendView(eng)) =>
              mutexOwner = Worker /\ workerPc \in {"running", "tick", "exiting"}
       /\ \A c \in CallerIds :
              /\ callers'[c].pc \in {"inline", "reading"} =>
                     /\ mutexOwner' = c
                     /\ workerPc' \notin {"running", "drain", "tick", "exiting"}
              /\ workerRunning_' => callers'[c].pc # "inline"
       /\ workerPc' \in {"running", "drain", "tick", "exiting"} => mutexOwner' = Worker]_vars

\* The worker is in the maintenance of a playing device while the script
\* thread stands before mutex_ with a call of its own.
WorkerOnlyWitness ==
    /\ workerRunning_
    /\ workerPc = "tick"
    /\ eng.state_ = "Playing"
    /\ callers["c1"].pc = "enter"

\* C8 (as stated): what a command throws becomes the result false of the
\* call; it never leaves the call as an exception.
ExceptionsBecomeFalse == \A c \in CallerIds : callers[c].result # "escaped"

\* What a call on one device may do to what the accessors say of another
\* device b: nothing to getVolume and currentSourceName.
SameVolumeAndSource(b) ==
    /\ getVolume(eng', b) = getVolume(eng, b)
    /\ currentSourceName(eng', b) = currentSourceName(eng, b)

\* C3 as the specification states it: a step of an operation on device A
\* (target') leaves getVolume(B), currentSourceName(B) and isPlaying(B) of every
\* other device B as they were.
DeviceIsolationAsStated ==
    [][\A b \in Devices : b # target' =>
          SameVolumeAndSource(b) /\ isPlaying(eng', b) = isPlaying(eng, b)]_vars

\* C3, as the code has it: a step of an operation on device A leaves
\* getVolume(B) and currentSourceName(B) of every other device B as they were,
\* and isPlaying(B) too unless B was the device playing on the one handle,
\* which the switch to A stops: then isPlaying(B) turns false.
DeviceIsolation ==
    [][\A b \in Devices : b # target' =>
          /\ SameVolumeAndSource(b)
          /\ \/ isPlaying(eng', b) = isPlaying(eng, b)
             \/ b = eng.currentDeviceId_ /\ isPlaying(eng, b) /\ ~isPlaying(eng', b)]_vars

\* A call on device 1 has just stopped device 0, which was playing at a
\* volume of its own.
DeviceIsolationWitness ==
    /\ target = 1 /\ eng.currentDeviceId_ = 1 /\ eng.state_ = "Playing"
    /\ 0 \in DOMAIN superseded
    /\ getVolume(eng, 0) = 150 /\ getVolume(eng, 1) = kDefaultVolumePercent
    /\ currentSourceName(eng, 0) = "FM"
    /\ eng.deviceStates_[0].currentTrackPath # NoPath

\* C4: whatever device b was superseded, the switchToDeviceLocked of the
\* next command for b restores the selected channel, mode, cursor, track,
\* positions, volume gain and fade override b had right before it was
\* superseded, with the playback state Stopped.
RestoredAsSuperseded ==
    \A b \in DOMAIN superseded :
        LET r == switchToDeviceLocked(eng, b)
        IN LiveView(r) = superseded[b] /\ r.state_ = "Stopped" /\ r.currentDeviceId_ = b

\* Device 0 is current again after device 1 superseded it, stopped, and has
\* the track, cursor, position, gain and fade override of before.
RestoredWitness ==
    /\ target = 0 /\ eng.currentDeviceId_ = 0 /\ 1 \in DOMAIN superseded
    /\ eng.state_ = "Stopped" /\ eng.mode_ = "Station"
    /\ eng.currentTrackPath_ = <<StationKey, "transition", 0>>
    /\ eng.songIndex_ = 1 /\ eng.transitionIndex_ = 1 /\ eng.songsSinceAd_ = 1
    /\ eng.emitterPosition_ = FarEast
    /\ eng.deviceStates_[0].volumeGain = 150
    /\ eng.deviceStates_[0].fadeOverride.enabled

\* C5: every device but the current one is stored Stopped, the handle is
\* open only while the current device is Playing or Paused, and the step that
\* switches devices leaves the previous device stored as it was, Stopped.
OneLiveDevice ==
    [][/\ \A d \in (DOMAIN eng'.deviceStates_) \ {eng'.currentDeviceId_} :
              eng'.deviceStates_[d].state = "Stopped"
       /\ eng'.osHandle # "none" => eng'.state_ \in {"Playing", "Paused"}
       /\ eng'.currentDeviceId_ # eng.currentDeviceId_ =>
              eng'.deviceStates_[eng.currentDeviceId_] =
                  [makeCurrentDeviceStateLocked(eng) EXCEPT
                      !.state = "Stopped", !.trackStartValid = FALSE]]_vars

\* Device 1 plays on the handle and device 0, which had an ad on it when
\* device 1 took over, is stored Stopped with its track.
OneLiveDeviceWitness ==
    /\ eng.currentDeviceId_ = 1 /\ eng.state_ = "Playing" /\ eng.osHandle = "mci"
    /\ 0 \in DOMAIN eng.deviceStates_
    /\ eng.deviceStates_[0].state = "Stopped"
    /\ eng.deviceStates_[0].currentTrackPath = <<StationKey, "ad", 0>>

\* C9: once one of the interrupting calls has raised the flag while the
\* worker is inside a connection attempt (in the resolver or in a backend
\* start), the next step of the attempt ends it: the play fails, the device
\* is Stopped and no backend is selected.
InterruptAborts ==
    [][(wk.pc \in {"resolve", "mf", "ds"} /\ playInterruptRequested_) =>
          /\ wk'.pc = "finished" /\ wk'.ret = "false"
          /\ eng'.state_ = "Stopped" /\ eng'.backend_ = "None"
          /\ eng'.osHandle = "none"]_vars

\* An attempt ended in failure with a candidate still untried and the flag
\* up: the interrupt ended it, not the end of the candidate list.
InterruptAbortsWitness ==
    /\ wk.pc = "finished" /\ wk.ret = "false" /\ wk.left > 0
    /\ playInterruptRequested_
    /\ eng.state_ = "Stopped" /\ eng.backend_ = "None"

\* C10: no ad or transition is started right after another ad or transition
\* on the same device.
NoNonSongsBackToBack == ~eng.backToBack

\* A step in which the call op ran (a tick, for op "tick").
Called(op) == seen'.flip # seen.flip /\ seen'.cmd.op = op

\* The engine as the closure of the step's call finds it, after
\* switchToDeviceLocked.
Entered == switchToDeviceLocked(eng, target')

Cursor(e) == <<e.songIndex_, e.transitionIndex_, e.adIndex_, e.songsSinceAd_>>

\* The n-th track (n = 0, 1, ...) a station with songs, transitions and ads
\* emits after start() for an ad interval of k songs, as the specification
\* describes the pattern: songs at the even places, round-robin; at an odd
\* place, after the j-th song, the next ad when k divides j and the next
\* transition otherwise.
Emission(ch, k, n) ==
    IF n % 2 = 0 THEN ch.songs[((n \div 2) % Len(ch.songs)) + 1]
    ELSE IF ((n + 1) \div 2) % k = 0
    THEN ch.ads[(((((n + 1) \div 2) \div k) - 1) % Len(ch.ads)) + 1]
    ELSE ch.transitions[((((n + 1) \div 2) - (((n + 1) \div 2) \div k) - 1)
                            % Len(ch.transitions)) + 1]

\* C11: on a station with songs, transitions and ads and an ad interval
\* K > 0, the n-th track started after a fresh start() is the one the pattern
\* gives: song, transition, song, ..., an ad in place of the transition after
\* every K-th song, each kind taken round-robin in catalog order.
StationPattern ==
    (/\ seen.cmd.op \in {"start", "tick"}
     /\ eng.state_ = "Playing"
     /\ HasChan(eng)
     /\ Len(Chan(eng).transitions) > 0
     /\ Len(Chan(eng).ads) > 0)
    => eng.currentTrackPath_ = Emission(Chan(eng), config_.adIntervalSongs, seen.n)

\* With an ad every second song, station AM is at its third ad, which is its
\* first ad again, after both its transitions have come round twice.
StationPatternWitness ==
    /\ seen.cmd.op = "tick" /\ seen.n = 11 /\ config_.adIntervalSongs = 2
    /\ eng.selectedKey_ = AmKey /\ eng.state_ = "Playing"
    /\ eng.currentTrackPath_ = <<AmKey, "ad", 0>>
    /\ eng.adIndex_ = 3 /\ eng.transitionIndex_ = 3

\* C13: a station with songs only, once started, plays its songs round-robin
\* and is never stopped by the end of the list, with the loop flag on or off.
SongsOnlyStationCycles ==
    (seen.cmd.op \in {"start", "tick"} /\ eng.selectedKey_ = TalkKey)
    => /\ seen.ret = "true"
       /\ eng.state_ = "Playing"
       /\ eng.currentTrackPath_ = TalkEntry.songs[(seen.n % Len(TalkEntry.songs)) + 1]

\* Station Talk is in its third round with the loop flag off.
SongsOnlyStationWitness ==
    /\ seen.cmd.op = "tick" /\ seen.n = 7 /\ ~config_.loopPlaylist
    /\ eng.selectedKey_ = TalkKey /\ eng.state_ = "Playing"
    /\ eng.currentTrackPath_ = <<TalkKey, "song", 1>>

\* C12: when a track of the playlist ends, the tick moves songIndex_ to the
\* next index before the last song; past the last song it moves to index 0
\* and plays the first song when loopPlaylist is on, and finds no track and
\* leaves the device Stopped when it is off.
PlaylistLooping ==
    [][(Called("tick") /\ seen'.ret # "fade" /\ eng.selectedKey_ = PlaylistKey) =>
          IF eng.songIndex_ + 1 < Len(PlaylistEntry.songs)
          THEN /\ eng'.songIndex_ = eng.songIndex_ + 1
               /\ seen'.ret = "true" =>
                      /\ eng'.state_ = "Playing"
                      /\ eng'.currentTrackPath_ = PlaylistEntry.songs[eng.songIndex_ + 2]
          ELSE IF config_.loopPlaylist
          THEN /\ eng'.songIndex_ = 0
               /\ seen'.ret = "true" =>
                      /\ eng'.state_ = "Playing"
                      /\ eng'.currentTrackPath_ = PlaylistEntry.songs[1]
          ELSE /\ seen'.ret = "false"
               /\ eng'.state_ = "Stopped"
               /\ eng'.currentTrackPath_ = NoPath
               /\ eng'.osHandle = "none"]_vars

\* The last song of the playlist has ended with the loop flag off: the
\* device is Stopped without a track.
PlaylistLoopingWitness ==
    /\ seen.cmd.op = "tick" /\ seen.ret = "false" /\ seen.was = "Playing"
    /\ ~config_.loopPlaylist
    /\ eng.selectedKey_ = PlaylistKey /\ eng.mode_ = "Playlist"
    /\ eng.songIndex_ = Len(PlaylistEntry.songs)
    /\ eng.state_ = "Stopped" /\ eng.currentTrackPath_ = NoPath

\* The track the sequencer gives when the track of eng has ended.
NextTrack == advanceAndChooseNextTrackLocked(eng).track

\* A tick that found the local track of a Playing device complete.
LocalTrackEnded == Called("tick") /\ seen'.ret # "fade" /\ ~Chan(eng).isStream

\* The step at which the reconnection a tick began comes to its end.
ReconnectEnded ==
    seen.cmd.op = "tick" /\ wk.pc \in {"resolve", "mf", "ds"} /\ wk'.pc = "finished"

\* C14 as the specification states it: the tick that detects completion
\* leaves the device Playing the sequencer's next track (the reconnected
\* stream), or Stopped when the sequencer is exhausted.
CompletionAdvancesAsStated ==
    [][/\ LocalTrackEnded =>
              \/ /\ eng'.state_ = "Playing" /\ NextTrack # NoPath
                 /\ eng'.currentTrackPath_ = NextTrack
              \/ eng'.state_ = "Stopped" /\ NextTrack = NoPath
       /\ ReconnectEnded => eng'.state_ = "Playing"]_vars

\* C14, as the code has it: the tick that detects completion leaves the
\* device Playing the sequencer's next track, newly started (the stream,
\* newly connected), or Stopped with no track and no handle: when the
\* sequencer is exhausted, and also when the next track cannot be started
\* (the stream cannot be reached).  The ended track is closed in every case.
CompletionAdvances ==
    [][/\ LocalTrackEnded =>
              \/ /\ seen'.ret = "true" /\ eng'.state_ = "Playing"
                 /\ NextTrack # NoPath /\ eng'.currentTrackPath_ = NextTrack
                 /\ eng'.trackStartValid_ /\ eng'.osHandle # "none"
              \/ /\ seen'.ret = "false" /\ eng'.state_ = "Stopped"
                 /\ eng'.currentTrackPath_ = NoPath /\ eng'.osHandle = "none"
       /\ (Called("tick") /\ seen'.ret = "stream") =>
              wk'.pc = "resolve" /\ eng'.osHandle = "none"
       /\ ReconnectEnded =>
              \/ /\ wk'.ret = "true" /\ eng'.state_ = "Playing"
                 /\ eng'.backend_ \in {"MediaFoundationStream", "DirectShowStream"}
                 /\ eng'.osHandle # "none" /\ eng'.trackStartValid_
              \/ /\ wk'.ret = "false" /\ eng'.state_ = "Stopped"
                 /\ eng'.osHandle = "none"]_vars

\* A song of station FM has ended and the tick has started the transition.
CompletionAdvancesWitness ==
    /\ seen.cmd.op = "tick" /\ seen.ret = "true" /\ seen.was = "Playing"
    /\ eng.selectedKey_ = StationKey /\ eng.state_ = "Playing"
    /\ eng.currentTrackPath_ = <<StationKey, "transition", 0>>
    /\ eng.songsSinceAd_ = 1

\* C15: a changePlaylist(name) that returns true leaves the device Stopped
\* with the handle closed, mode None, the channel of that name selected, the
\* cursor at zero and no current track, in the live members and in the
\* snapshot, whatever state the device was in.
ChangePlaylistResets ==
    [][(Called("changePlaylist") /\ seen'.ret = "true") =>
          /\ eng'.currentDeviceId_ = target'
          /\ eng'.state_ = "Stopped" /\ eng'.osHandle = "none"
          /\ eng'.mode_ = "None"
          /\ eng'.selectedKey_ # NoKey
          /\ eng'.selectedKey_ = lookupChannelLocked(eng', seen'.cmd.s)
          /\ Cursor(eng') = <<0, 0, 0, 0>>
          /\ eng'.currentTrackPath_ = NoPath
          /\ eng'.deviceStates_[target'] = makeCurrentDeviceStateLocked(eng')]_vars

\* The device was Paused on an ad or a transition of station FM when the
\* playlist was selected.
ChangePlaylistResetsWitness ==
    /\ seen.cmd.op = "changePlaylist" /\ seen.cmd.s = "mix" /\ seen.ret = "true"
    /\ seen.was = "Paused" /\ eng.lastNonSong[0]
    /\ target = 0 /\ eng.selectedKey_ = PlaylistKey /\ eng.state_ = "Stopped"
    /\ eng.songIndex_ = 0 /\ eng.currentTrackPath_ = NoPath

\* What start() does to the engine en its closure finds.
StartsStation(en) ==
    IF en.selectedKey_ = NoKey \/ ~HasChan(en) \/ Chan(en).type # "Station"
    THEN /\ seen'.ret = "false"
         /\ eng' = syncCurrentDeviceStateLocked(en)
    ELSE /\ Cursor(eng') = <<0, 0, 0, 0>>
         /\ eng'.mode_ = "Station"
         /\ IF Chan(en).isStream
            THEN seen'.ret = "stream" /\ wk'.pc = "resolve"
            ELSE /\ seen'.ret = "true"
                 /\ eng'.state_ = "Playing"
                 /\ eng'.currentTrackPath_ = Chan(en).songs[1]

\* C16: start() returns false and changes nothing when no channel is
\* selected or the selected channel is not a Station; on a Station it puts
\* the cursor at zero, whatever it was, and starts the first song (connects
\* to the stream of a stream station).
StartIsStationOnly == [][Called("start") => StartsStation(Entered)]_vars

\* start() on station FM, Paused on an ad or a transition: the first song
\* is playing and the cursor is at zero.
StartIsStationOnlyWitness ==
    /\ seen.cmd.op = "start" /\ seen.ret = "true" /\ seen.was = "Paused"
    /\ eng.selectedKey_ = StationKey /\ eng.state_ = "Playing"
    /\ eng.currentTrackPath_ = <<StationKey, "song", 0>>
    /\ Cursor(eng) = <<0, 0, 0, 0>>

\* What play() does to the engine en its closure finds.
PlayResumesOrBegins(en) ==
    IF en.selectedKey_ # NoKey /\ en.state_ = "Paused"
    THEN IF seen'.ret = "true"
         THEN eng' = syncCurrentDeviceStateLocked([en EXCEPT !.state_ = "Playing"])
         ELSE seen'.ret = "false" /\ eng' = syncCurrentDeviceStateLocked(en)
    ELSE /\ Cursor(eng') = Cursor(en)
         /\ seen'.ret = "true" =>
                /\ eng'.state_ = "Playing"
                /\ en.songIndex_ < Len(Chan(en).songs)
                /\ eng'.currentTrackPath_ = Chan(en).songs[en.songIndex_ + 1]
                /\ eng'.trackStartValid_

\* C17: play() on a Paused device resumes it: the state becomes Playing and
\* nothing else changes (cursor, track, handle); on a device that is not
\* Paused it leaves songIndex_, transitionIndex_, adIndex_ and songsSinceAd_
\* as they are and starts the song at songIndex_.
PlayResumesOrBeginsAtCursor == [][Called("play") => PlayResumesOrBegins(Entered)]_vars

\* Station FM was past its first transition on device 0 when a call for
\* another device stopped it; play() has started song 1 with the cursor as
\* it was.
PlayBeginsAtCursorWitness ==
    /\ seen.cmd.op = "play" /\ seen.ret = "true" /\ seen.was = "Stopped"
    /\ target = 0 /\ eng.selectedKey_ = StationKey /\ eng.state_ = "Playing"
    /\ eng.currentTrackPath_ = <<StationKey, "song", 1>>
    /\ eng.songIndex_ = 1 /\ eng.transitionIndex_ = 1 /\ eng.songsSinceAd_ = 1

\* C18: a device comes to be Paused only in a pause() that returns true on
\* a Playing device, and no snapshot of another device is ever Paused;
\* pause() on a Stopped or a Paused device returns false and leaves the
\* state, the cursor, the track and everything else of the device as it was.
PausedOnlyByPause ==
    [][/\ (eng'.state_ = "Paused"
           /\ ~(eng.state_ = "Paused" /\ eng'.currentDeviceId_ = eng.currentDeviceId_)) =>
              Called("pause") /\ seen'.ret = "true" /\ seen'.was = "Playing"
       /\ \A d \in (DOMAIN eng'.deviceStates_) \ {eng'.currentDeviceId_} :
              eng'.deviceStates_[d].state # "Paused"
       /\ (Called("pause") /\ seen'.was # "Playing") =>
              /\ seen'.ret = "false"
              /\ eng'.state_ = seen'.was
              /\ eng' = syncCurrentDeviceStateLocked(Entered)]_vars

\* pause() on the Paused playlist has returned false; the device is Paused
\* on its second song as before.
PausedOnlyByPauseWitness ==
    /\ seen.cmd.op = "pause" /\ seen.was = "Paused" /\ seen.ret = "false"
    /\ eng.selectedKey_ = PlaylistKey /\ eng.state_ = "Paused"
    /\ eng.songIndex_ = 1 /\ eng.currentTrackPath_ = <<PlaylistKey, "song", 1>>

\* C19: stop() returns true and leaves the device Stopped with the handle
\* closed and no backend, mode None, the cursor at zero and no current track,
\* in the live members and in the snapshot, whatever state the device was in;
\* the selected channel, the volume gain and the fade override are those the
\* device had.
StopResets ==
    [][Called("stop") =>
          /\ seen'.ret = "true"
          /\ eng'.currentDeviceId_ = target'
          /\ eng'.state_ = "Stopped" /\ eng'.osHandle = "none" /\ eng'.backend_ = "None"
          /\ eng'.mode_ = "None"
          /\ Cursor(eng') = <<0, 0, 0, 0>>
          /\ eng'.currentTrackPath_ = NoPath
          /\ eng'.deviceStates_[target'] = makeCurrentDeviceStateLocked(eng')
          /\ eng'.selectedKey_ = Entered.selectedKey_
          /\ LiveView(eng').volumeGain = LiveView(Entered).volumeGain
          /\ LiveView(eng').fadeOverride = LiveView(Entered).fadeOverride]_vars

\* stop() on device 0, Paused on an ad or a transition of station FM with a
\* gain and a fade override of its own: Stopped, still tuned to FM, with that
\* gain and that override.
StopResetsWitness ==
    /\ seen.cmd.op = "stop" /\ seen.ret = "true" /\ seen.was = "Paused"
    /\ target = 0 /\ eng.lastNonSong[0]
    /\ eng.selectedKey_ = StationKey /\ eng.state_ = "Stopped"
    /\ eng.deviceStates_[0].volumeGain = 150
    /\ eng.deviceStates_[0].fadeOverride.enabled

\* A step in which the connection attempt of a forward() or a rewind() on a
\* stream channel ends with success.
SkipConnected ==
    /\ seen.cmd.op \in {"forward", "rewind"}
    /\ wk.pc # "finished" /\ wk'.pc = "finished" /\ wk'.ret = "true"

\* C20 as stated: whenever forward() or rewind() returns true, the device is
\* Playing right after, whether it was Stopped, Playing or Paused.
SkipLeavesPlayingAsStated ==
    [][/\ ((Called("forward") \/ Called("rewind")) /\ seen'.ret = "true") =>
              eng'.state_ = "Playing"
       /\ SkipConnected => eng'.state_ = "Playing"]_vars

\* C20: whenever forward() returns true the device is Playing right after,
\* whatever state it was in; whenever rewind() returns true the device is
\* Playing right after, except a Paused device whose track is rewound in
\* place, which stays Paused with nothing else changed.
SkipLeavesPlaying ==
    [][/\ (Called("forward") /\ seen'.ret = "true") => eng'.state_ = "Playing"
       /\ (Called("rewind") /\ seen'.ret = "true") =>
              \/ eng'.state_ = "Playing"
              \/ /\ seen'.was = "Paused"
                 /\ eng' = syncCurrentDeviceStateLocked(Entered)
       /\ SkipConnected => eng'.state_ = "Playing"]_vars

\* rewind() on the playlist, Paused on its second song, has returned true:
\* the device is still Paused on that song.
SkipLeavesPlayingWitness ==
    /\ seen.cmd.op = "rewind" /\ seen.was = "Paused" /\ seen.ret = "true"
    /\ eng.selectedKey_ = PlaylistKey /\ eng.state_ = "Paused"
    /\ eng.songIndex_ = 1 /\ eng.currentTrackPath_ = <<PlaylistKey, "song", 1>>

\* A step that takes the connection attempt on.
AttemptMoves == wk.pc \in {"resolve", "mf", "ds"} /\ wk' # wk

\* The step keeps to the order of playStreamLocked: Media Foundation on the
\* first candidate after the resolver, DirectShow on the same candidate after
\* Media Foundation failed, Media Foundation on the next candidate after
\* DirectShow failed; a backend that starts ends the attempt with the device
\* Playing on it.
TriedInOrder ==
    /\ wk'.pc \in {"mf", "ds", "finished"}
    /\ wk'.pc = "mf" =>
          \/ wk.pc = "resolve" /\ wk'.of - wk'.left = 1
          \/ wk.pc = "ds" /\ wk'.of = wk.of /\ wk'.left = wk.left - 1
    /\ wk'.pc = "ds" => wk.pc = "mf" /\ wk'.of = wk.of /\ wk'.left = wk.left
    /\ (wk'.pc = "finished" /\ wk'.ret = "true") =>
          /\ wk.pc \in {"mf", "ds"}
          /\ eng'.state_ = "Playing"
          /\ eng'.backend_ = (IF wk.pc = "mf" THEN "MediaFoundationStream"
                              ELSE "DirectShowStream")
          /\ eng'.osHandle = wk.pc
    /\ (wk'.pc = "finished" /\ wk'.ret = "false") =>
          eng'.state_ = "Stopped" /\ eng'.backend_ = "None"

\* C21 as stated: the candidates are tried in order, Media Foundation before
\* DirectShow on each; the first start that succeeds ends the search with the
\* device Playing on that backend; the play fails (Stopped, backend None)
\* only after the last candidate has failed on DirectShow.
StreamOrderAsStated ==
    [][AttemptMoves =>
          /\ TriedInOrder
          /\ (wk'.pc = "finished" /\ wk'.ret = "false") =>
                 wk.pc = "ds" /\ wk.left = 0]_vars

\* C21: the same, the play failing only after the last candidate has failed
\* on DirectShow or after a play interrupt was requested.
StreamOrder ==
    [][AttemptMoves =>
          /\ TriedInOrder
          /\ (wk'.pc = "finished" /\ wk'.ret = "false") =>
                 \/ wk.pc = "ds" /\ wk.left = 0
                 \/ playInterruptRequested_]_vars

\* The first candidate failed on both backends and the second on Media
\* Foundation; DirectShow has started the second.
StreamOrderWitness ==
    /\ wk.pc = "finished" /\ wk.ret = "true" /\ wk.of = 2 /\ wk.left = 0
    /\ eng.state_ = "Playing" /\ eng.backend_ = "DirectShowStream"
    /\ ~playInterruptRequested_

\* A step in which a call or a tick handed a local file to playPathLocked
\* and got false back: play() on a device that is not Paused and whose
\* cursor designates a file, or a tick whose sequencer has a next track.
FileStartFailed ==
    /\ seen'.ret = "false"
    /\ \/ /\ Called("play")
          /\ Entered.state_ # "Paused" /\ HasChan(Entered) /\ ~Chan(Entered).isStream
          /\ chooseCurrentTrackLocked(Entered) # NoPath
       \/ LocalTrackEnded /\ NextTrack # NoPath

\* C22: a local file start returns false only when MCI could not open the
\* file and the Media Foundation fallback, attempted after it, failed too
\* (seen.open is "none", or "mf" with the fallback cut short by the play
\* interrupt).
FileFailsWhenChainExhausted ==
    [][FileStartFailed =>
          \/ seen'.open = "none"
          \/ seen'.open = "mf" /\ playInterruptRequested_']_vars

\* The place of key in the sequence keys (0 when it is not there).
PlaceIn(keys, key) ==
    IF \E i \in 1..Len(keys) : keys[i] = key
    THEN CHOOSE i \in 1..Len(keys) : keys[i] = key /\ \A j \in 1..(i - 1) : keys[j] # key
    ELSE 0

\* The key after key in keys, the first after the last, and the first when
\* key is not in keys.
SuccessorIn(keys, key) == keys[(PlaceIn(keys, key) % Len(keys)) + 1]

\* C23: selectNextSource(3) that returns true selects the stream station
\* declared after the selected one in the INI, the first declared one after
\* the last and when the selection is not a stream station.
StreamsInIniOrder ==
    [][(Called("selectNextSource") /\ seen'.cmd.n = 3 /\ seen'.ret = "true") =>
          eng'.selectedKey_ = SuccessorIn(IniStreamOrder, Entered.selectedKey_)]_vars

\* The catalog a "next source" closure works on.
Rescanned(e) == IF config_.autoRescanOnChangePlaylist THEN scanLibraryLocked(e) ELSE e

\* The playlists (category 1) or the stations that are not streams
\* (category 2) of the catalog of e.
InCategory(e, category) ==
    {k \in DOMAIN e.channels_ :
        /\ ~e.channels_[k].isStream
        /\ e.channels_[k].type = (IF category = 1 THEN "Playlist" ELSE "Station")}

\* The channel of keys whose display name comes first in the alphabet.
FirstByName(e, keys) ==
    CHOOSE k \in keys :
        \A j \in keys : LowerRank(e.channels_[k].displayName)
                            <= LowerRank(e.channels_[j].displayName)

\* The names of keys that come after the name of channel key.
AfterByName(e, keys, key) ==
    {k \in keys : LowerRank(e.channels_[k].displayName)
                    > LowerRank(e.channels_[key].displayName)}

\* The successor of key by display name among keys, the first of keys after
\* the last and when key is not one of them.
AlphabeticalNext(e, keys, key) ==
    IF key \in keys /\ AfterByName(e, keys, key) # {}
    THEN FirstByName(e, AfterByName(e, keys, key))
    ELSE FirstByName(e, keys)

\* What selectNextSource(category), category not 3, does to the engine en
\* its closure finds (rescanned when the INI says so).
SelectsNextByName(en, category) ==
    IF category \in {1, 2} /\ InCategory(en, category) # {}
    THEN /\ seen'.ret = "true"
         /\ eng'.selectedKey_ = AlphabeticalNext(en, InCategory(en, category), en.selectedKey_)
         /\ eng'.state_ = "Stopped" /\ eng'.mode_ = "None" /\ eng'.osHandle = "none"
         /\ Cursor(eng') = <<0, 0, 0, 0>> /\ eng'.currentTrackPath_ = NoPath
    ELSE /\ seen'.ret = "false"
         /\ eng' = syncCurrentDeviceStateLocked(en)

\* C24: selectNextSource(1) and selectNextSource(2) select the successor of
\* the selected channel by display name within the category, the first
\* channel after the last and when the selection is not in the category; on
\* a category that does not exist or has no channel the call returns false
\* and leaves the device as it was.
NextSourceByName ==
    [][(Called("selectNextSource") /\ seen'.cmd.n # 3) =>
          SelectsNextByName(Rescanned(Entered), seen'.cmd.n)]_vars

\* Station FM was playing on emitter 0 when selectNextSource(2) came: Talk,
\* the station after FM, is selected and the emitter is Stopped.
NextSourceByNameWitness ==
    /\ seen.cmd.op = "selectNextSource" /\ seen.cmd.n = 2 /\ seen.ret = "true"
    /\ seen.was = "Playing" /\ target = 0
    /\ eng.selectedKey_ = TalkKey /\ eng.state_ = "Stopped"

\* C25 as stated: on the engine the closure of a call for device d finds,
\* changeToNextSource(category) and selectNextSource(category) return the
\* same result and leave the same engine.
NextSourceCallsEquivalent ==
    wk.pc = "idle" =>
        \A d \in Devices, category \in Categories :
            selectNextSource(switchToDeviceLocked(eng, d), category)
                = changeToNextSource(switchToDeviceLocked(eng, d), category)

\* a and b are what selectNextSource and changeToNextSource return on an
\* engine whose selection is key and whose candidates in the category are
\* keys: the same result and the same engine but for the selection, which is
\* the candidate after key for the one and the first candidate for the
\* other.
SameButSelection(a, b, keys, key) ==
    /\ a.ret = b.ret
    /\ [a.e EXCEPT !.selectedKey_ = b.e.selectedKey_] = b.e
    /\ b.ret = "true" =>
          /\ b.e.selectedKey_ = keys[1]
          /\ a.e.selectedKey_ = SuccessorIn(keys, key)
          /\ (a.e = b.e) <=> (PlaceIn(keys, key) \in {0, Len(keys)})

NextSourceCallsAgree(en, category) ==
    SameButSelection(selectNextSource(en, category), changeToNextSource(en, category),
                     SourceCandidates(Rescanned(en), category), en.selectedKey_)

\* C25: the two calls return the same result and leave the same device
\* state, except for the channel they select: selectNextSource the candidate
\* after the selected one, changeToNextSource the first candidate of the
\* category.  They select the same channel exactly when the selection is not
\* in the category or is its last candidate.
NextSourceCallsDifferInSelection ==
    wk.pc = "idle" =>
        \A d \in Devices, category \in Categories :
            NextSourceCallsAgree(switchToDeviceLocked(eng, d), category)

\* changeToNextSource(2) on emitter 0, playing a station, has selected AM,
\* the first station; from here selectNextSource(2) goes on to FM and
\* changeToNextSource(2) stays on AM.
NextSourceCallsWitness ==
    /\ seen.cmd.op = "changeToNextSource" /\ seen.cmd.n = 2 /\ seen.ret = "true"
    /\ seen.was = "Playing" /\ target = 0 /\ wk.pc = "idle"
    /\ eng.selectedKey_ = AmKey
    /\ selectNextSource(eng, 2).e.selectedKey_ = StationKey
    /\ changeToNextSource(eng, 2).e.selectedKey_ = AmKey

\* The test at the head of the backend part of updateFadeVolumeLocked: the
\* levels computed for the current device are the remembered ones, and the
\* calculation returns before it calls the backend.
LevelsUnchanged(e) ==
    FadeLevels(e, e.deviceStates_[e.currentDeviceId_])
        = <<e.lastVolume_, e.lastLeftVolume_, e.lastRightVolume_>>

\* The worker has just recomputed the levels of a track that goes on, with
\* the handle of backend open.
FadedOn(backend, handle) ==
    /\ seen.cmd.op = "tick" /\ seen.ret = "fade"
    /\ eng.state_ = "Playing"
    /\ eng.backend_ = backend /\ eng.osHandle = handle

\* C26: when the fade and pan calculation has just run for a playing device
\* and the backend accepted its volume call, a second run with the same
\* positions, fade parameters, gain and handle computes the remembered
\* levels and calls no backend, for MCI, Media Foundation and DirectShow,
\* with the stereo pan on or off.
RedundantLevelsSuppressed ==
    \A backend \in {"MCI", "MediaFoundationStream", "DirectShowStream"} :
        \A handle \in {"mci", "mf", "ds"} :
            FadedOn(backend, handle) => LevelsUnchanged(eng)

\* The fade distances in force for the current device of e.
MinDistance(e) ==
    IF e.deviceStates_[e.currentDeviceId_].fadeOverride.enabled
    THEN e.deviceStates_[e.currentDeviceId_].fadeOverride.minDistance
    ELSE config_.minFadeDistance

MaxDistance(e) ==
    IF e.deviceStates_[e.currentDeviceId_].fadeOverride.enabled
    THEN e.deviceStates_[e.currentDeviceId_].fadeOverride.maxDistance
    ELSE config_.maxFadeDistance

\* The level of a device at full strength (attenuation 1.0): its gain, at
\* most 1.0, in thousandths.
FullLevel(e) ==
    IF e.deviceStates_[e.currentDeviceId_].volumeGain >= 100 THEN 1000
    ELSE e.deviceStates_[e.currentDeviceId_].volumeGain * 10

\* The device plays through an open handle, so its levels are the ones the
\* latest fade calculation sent.
Audible(e) == e.state_ = "Playing" /\ e.osHandle = "mci"

\* The level of a playing device is the full level up to the minimum
\* distance and 0 from the maximum distance on, and every level sent to the
\* handle (-1: none was sent yet) is within 0..1000.
FadeEnds ==
    Audible(eng) =>
        /\ distanceLocked(eng) <= MinDistance(eng) => eng.lastVolume_ = FullLevel(eng)
        /\ distanceLocked(eng) >= MaxDistance(eng) => eng.lastVolume_ = 0
        /\ eng.lastVolume_ \in 0..1000
        /\ eng.osVolume[1] \in -1..1000
        /\ eng.osVolume[2] \in -1..1000

\* A step that moves a playing emitter no nearer does not raise its level.
FadeFalls ==
    (Called("setPositions") /\ Audible(Entered) /\ Audible(eng')
        /\ distanceLocked(eng') >= distanceLocked(Entered))
    => eng'.lastVolume_ <= Entered.lastVolume_

\* C27: for fixed minimum and maximum fade distance the attenuation is 1.0
\* (the level is the full level of the gain) at every distance up to the
\* minimum, 0.0 at every distance from the maximum on, and does not grow
\* with the distance; the levels sent to the backend are within 0..1000.
FadeMonotone == [][FadeEnds' /\ FadeFalls]_vars

\* A playing emitter between the two distances was moved further away and
\* its level fell to a value strictly between silence and the full level.
FadeMonotoneWitness ==
    /\ seen.cmd.op = "setPositions" /\ Audible(eng)
    /\ distanceLocked(eng) > MinDistance(eng) + 1
    /\ distanceLocked(eng) < MaxDistance(eng)
    /\ eng.lastVolume_ > 0 /\ eng.lastVolume_ < FullLevel(eng)
    /\ eng.osVolume[1] \in 1..(eng.lastVolume_ - 1)

\* Every device has a gain within 0.0..2.0 and a volume within 0..200, and
\* a device no call has named has volume 100.
VolumeInRange ==
    \A d \in 0..(MaxDeviceId + 1) :
        /\ getVolume(eng, d) \in 0..200
        /\ d \in DOMAIN eng.deviceStates_ => eng.deviceStates_[d].volumeGain \in 0..200
        /\ d \notin DOMAIN eng.deviceStates_ => getVolume(eng, d) = 100

\* v brought into 0..200.
Limited(v) == IF v < 0 THEN 0 ELSE IF v > 200 THEN 200 ELSE v

\* C28: after any sequence of setVolume, volumeUp and volumeDown the gain of
\* every device is within 0.0..2.0 and getVolume within 0..200 (100 for a
\* device no call has named), and after setVolume(v) getVolume of the
\* device is v brought into 0..200.
VolumeClamped ==
    /\ []VolumeInRange
    /\ [][Called("setVolume") => getVolume(eng', target') = Limited(seen'.cmd.n)]_vars

\* A percentage above the range was set on device 0 while the other device
\* is still unnamed.
VolumeClampedWitness ==
    /\ seen.cmd.op = "setVolume" /\ seen.cmd.n > 200 /\ target = 0
    /\ getVolume(eng, 0) = 200
    /\ 1 \notin DOMAIN eng.deviceStates_

\* The fade parameters in force for device d: its override, or the INI's.
FadeParams(e, d) ==
    IF d \in DOMAIN e.deviceStates_ /\ e.deviceStates_[d].fadeOverride.enabled
    THEN <<e.deviceStates_[d].fadeOverride.minDistance,
           e.deviceStates_[d].fadeOverride.maxDistance,
           e.deviceStates_[d].fadeOverride.panDistance>>
    ELSE <<config_.minFadeDistance, config_.maxFadeDistance, config_.panDistance>>

OverrideOf(e, d) ==
    IF d \in DOMAIN e.deviceStates_ THEN e.deviceStates_[d].fadeOverride
    ELSE NoFadeOverride

Negative(v) == v[1] < 0 \/ v[2] < 0 \/ v[3] < 0

\* C29: setFadeParams with a negative argument puts the three fade
\* parameters of its device back to the INI's, whatever the other two
\* arguments are; without one it stores an override with the given minimum,
\* a maximum of at least the minimum plus 1 and a pan distance of at least
\* 1; either way the override of every other device stays as it is.
FadeParamsSetOrReset ==
    [][Called("setFadeParams") =>
          /\ \A d \in Devices \ {target'} : OverrideOf(eng', d) = OverrideOf(eng, d)
          /\ Negative(seen'.cmd.v) =>
                FadeParams(eng', target')
                    = <<config_.minFadeDistance, config_.maxFadeDistance, config_.panDistance>>
          /\ ~Negative(seen'.cmd.v) =>
                /\ OverrideOf(eng', target').enabled
                /\ FadeParams(eng', target')[1] = seen'.cmd.v[1]
                /\ FadeParams(eng', target')[2] >= seen'.cmd.v[2]
                /\ FadeParams(eng', target')[2] >= FadeParams(eng', target')[1] + 1
                /\ FadeParams(eng', target')[3] >= seen'.cmd.v[3]
                /\ FadeParams(eng', target')[3] >= 1]_vars

\* Device 0 had an override, the other device has one, and a call with a
\* negative last argument has put device 0 back to the INI's parameters.
FadeParamsResetWitness ==
    /\ seen.cmd.op = "setFadeParams" /\ seen.cmd.v = <<200, 900, -1>> /\ target = 0
    /\ OverrideOf(eng, 0).minDistance = 700
    /\ ~OverrideOf(eng, 0).enabled
    /\ OverrideOf(eng, 1).enabled

\* A changePlaylist for a channel that is not in the library has raised the
\* interrupt flag and its closure has not run yet.
UnknownChannelAsked ==
    /\ seen.asked /\ seen.ask.op = "changePlaylist"
    /\ lookupChannelLocked(scanLibraryLocked(eng), seen.ask.s) = NoKey

\* The step is the closure of that call.
UnknownChannelAnswered ==
    UnknownChannelAsked /\ Called("changePlaylist") /\ seen'.cmd = seen.ask

\* The step is one of a connection attempt that reads the flag the call
\* has raised.
UnknownChannelHeard ==
    UnknownChannelAsked /\ playInterruptRequested_ /\ wk.pc \in {"resolve", "mf", "ds"}
        /\ wk' # wk

\* C30: changePlaylist with a name that matches no channel returns false
\* and leaves the selected channel, playback state, mode, cursor and track
\* of its device unchanged, in its closure and in what its interrupt does
\* to the worker; the engine goes on.
UnknownChannelChangesNothing ==
    [][/\ UnknownChannelAnswered => seen'.ret = "false"
       /\ (UnknownChannelAnswered \/ UnknownChannelHeard) =>
              DeviceView(eng', seen.dev) = DeviceView(eng, seen.dev)]_vars

\* The resolver runs: playStreamLocked waits for its URL.
Resolving == wk.pc = "resolve" /\ wk.via = "none"

\* C31: one call of the resolver fetches at most kMaxResolveDepth + 1 = 5
\* times, whatever the wrapper playlists name (each other included), and
\* then returns a URL.
ResolverBounded ==
    /\ [](wk.fetches <= kMaxResolveDepth + 1)
    /\ (Resolving ~> (wk.pc = "resolve" /\ wk.via # "none" /\ wk.url # ""))

\* Two wrappers named each other until the resolver stopped at the depth
\* bound, after five fetches.
ResolverBoundedWitness ==
    /\ wk.pc = "resolve" /\ wk.via = "depth"
    /\ wk.fetches = kMaxResolveDepth + 1
    /\ wk.url \in {WrapperA, WrapperB}

\* The ways a call of the resolver fails.
ResolverFailures == {"fail", "binary", "noentry", "abort", "depth"}

\* A level of the resolver returns through one of its failure exits.
ResolverFails == Resolving /\ wk'.via \in ResolverFailures

\* The resolver returns at once because its URL names an audio file.
ResolverDirect == Resolving /\ wk'.via = "direct"

\* The statement of C32 as written: every failure gives back the URL the
\* resolver was first called with (the station's), and a URL with a
\* direct-audio extension is returned without a fetch.
ResolverReturnsStationUrl ==
    [][/\ ResolverFails => wk'.url = Chan(eng).streamUrl
       /\ ResolverDirect => wk'.url = inputUrl /\ wk'.fetches = wk.fetches]_vars

\* C32: a failure (fetch error, binary body, no playable entry, abort,
\* depth bound) makes the resolver return the URL that the failing level
\* was given: the station's URL when the first level fails, the last
\* wrapper entry found otherwise; a URL with a direct-audio extension is
\* returned at once, without a fetch.
ResolverReturnsLevelUrl ==
    [][/\ ResolverFails => wk'.url = inputUrl /\ wk'.fetches <= wk.fetches + 1
       /\ ResolverFails /\ wk.depth = 0 => wk'.url = Chan(eng).streamUrl
       /\ ResolverDirect => wk'.url = inputUrl /\ wk'.fetches = wk.fetches]_vars

\* A wrapper named by the station's playlist could not be fetched: the
\* resolver gave back the wrapper's URL, not the station's.
ResolverReturnsLevelUrlWitness ==
    /\ wk.pc = "resolve" /\ wk.via = "fail" /\ wk.depth > 0
    /\ wk.url \in {WrapperA, WrapperB}
    /\ wk.url # Chan(eng).streamUrl

\* The songs (by index) a basename names, as the specification has it: the
\* name with the blanks around it dropped is a song's file name or its
\* file name without the extension, letters compared without case.
SongsNamed(trackBasename) ==
    CASE trackBasename \in {"intro", " INTRO "} -> {0, 2}
      [] trackBasename = "Intro.mp3" -> {0}
      [] trackBasename = "intro.wav" -> {2}
      [] trackBasename \in {"OUTRO.ogg", "outro"} -> {1}
      [] OTHER -> {}

\* C33: setTrack(name) returns true only if the selected channel of its
\* device is not a stream and has a song whose file name or stem is the
\* trimmed name, case ignored; right after, songIndex is the index of such
\* a song and getTrack() of the device is that song's file name.
SetTrackSelectsNamedSong ==
    [][Called("setTrack") /\ seen'.ret = "true" =>
          /\ HasChan(Entered) /\ ~Chan(Entered).isStream
          /\ eng'.currentDeviceId_ = target'
          /\ eng'.selectedKey_ = Entered.selectedKey_
          /\ eng'.songIndex_ \in SongsNamed(seen'.cmd.s)
          /\ eng'.songIndex_ < Len(Chan(eng').songs)
          /\ getTrack(eng', target') = filename(Chan(eng').songs[eng'.songIndex_ + 1])]_vars

\* setTrack(" INTRO ") went from another track of station AM, which was
\* playing, to the first of the two songs the name fits.
SetTrackSelectsNamedSongWitness ==
    /\ seen.cmd.op = "setTrack" /\ seen.cmd.s = " INTRO " /\ seen.ret = "true"
    /\ seen.was = "Playing"
    /\ eng.selectedKey_ = AmKey /\ eng.songIndex_ = 0
    /\ getTrack(eng, eng.currentDeviceId_) = "Intro.mp3"

\* The grace period of the track a device plays, as the specification has
\* it: by the kind of source.
GracePeriod(e) == IF HasChan(e) /\ Chan(e).isStream THEN 2500 ELSE 800

\* A step that starts a track: a call or a worker's turn that opened a
\* file and returned true (a play() that resumed is none), or a connection
\* attempt that succeeded.
TrackStarts ==
    \/ /\ seen'.flip # seen.flip /\ seen'.ret = "true"
       /\ seen'.cmd.op \in {"play", "start", "forward", "rewind", "tick"}
       /\ seen'.was # "Paused"
    \/ wk.pc \in {"mf", "ds"} /\ wk'.pc = "finished" /\ wk'.ret = "true"

\* C34: the clock reading kept for a track is the one of its start, and a
\* worker's turn that comes less than the grace period after it (800 ms
\* for a local track, 2500 ms for a stream) detects no completion: it
\* starts no next track and no reconnect, whatever the status query says.
NoCompletionInGrace ==
    [][/\ TrackStarts => eng'.trackStartValid_ /\ eng'.trackStartTime_ = seen.now
       /\ ~TrackStarts /\ eng.state_ \in {"Playing", "Paused"} /\ eng'.state_ = "Playing"
              => eng'.trackStartValid_ /\ eng'.trackStartTime_ = eng.trackStartTime_
       /\ Called("tick") /\ seen.now - eng.trackStartTime_ < GracePeriod(eng)
              => /\ seen'.ret = "fade" /\ wk' = wk
                 /\ eng'.state_ = "Playing" /\ eng'.osHandle = eng.osHandle
                 /\ eng'.currentTrackPath_ = eng.currentTrackPath_
                 /\ Cursor(eng') = Cursor(eng)]_vars

\* The worker's turn came a second after the stream connected: past the
\* grace period of a local track, within that of a stream, and the stream
\* plays on.
NoCompletionInGraceWitness ==
    /\ seen.cmd.op = "tick" /\ seen.ret = "fade"
    /\ eng.state_ = "Playing" /\ HasChan(eng) /\ Chan(eng).isStream
    /\ eng.trackStartTime_ > 0
    /\ seen.now - eng.trackStartTime_ = 1000

\* The closure with ticket t waits in the queue and the thread that queued
\* it has left wait_for.
Abandoned(q) == q.caller \in CallerIds /\ callers[q.caller].ticket # q.ticket

AbandonedInQueue(t) ==
    \E i \in DOMAIN commandQueue_ : commandQueue_[i].ticket = t /\ Abandoned(commandQueue_[i])

\* A thread leaves runBoolCommandForDevice after its wait ran out.
GivesUp(c) == callers[c].pc = "timedout" /\ callers'[c].pc = "idle"

\* C35: a caller that gives up after the wait timeout takes nothing out of
\* the queue; the queue loses a closure only at its front, to the worker;
\* the closure of a caller that gave up is run by the worker when its turn
\* comes, with its effects (the device switch and what the command does),
\* nobody being handed its result; and its turn does come.
AbandonedCommandStillRuns ==
    /\ [][/\ \A c \in CallerIds :
                GivesUp(c) => commandQueue_' = commandQueue_ /\ current' = current
                                  /\ eng' = eng
          /\ (commandQueue_' # commandQueue_ /\ Len(commandQueue_') <= Len(commandQueue_))
                => /\ commandQueue_ # <<>>
                   /\ commandQueue_' = Tail(commandQueue_)
                   /\ current' = Head(commandQueue_) /\ workerPc' = "running"
          /\ (workerPc = "running" /\ workerPc' # "running" /\ Abandoned(current))
                => /\ eng' = syncCurrentDeviceStateLocked(
                                 RunQueued(eng, current.dev, current.call).e)
                   /\ eng'.currentDeviceId_ = current.dev
                   /\ callers' = callers]_vars
    /\ \A t \in 1..MaxTickets :
           AbandonedInQueue(t) ~> (workerPc = "running" /\ current.ticket = t)

\* The script thread was told false for the one changePlaylist it queued,
\* and the worker has selected the playlist since.
AbandonedCommandStillRunsWitness ==
    /\ nextTicket = 2 /\ commandQueue_ = <<>> /\ workerPc = "drain"
    /\ callers["c1"].pc = "idle" /\ callers["c1"].result = "false"
    /\ callers["c2"].pc = "idle" /\ callers["c2"].result = "none"
    /\ eng.selectedKey_ = PlaylistKey

\* A thread is inside a call of the engine.
InCall(c) == callers[c].pc # "idle"

\* C36: every call of a function that changes the engine returns to its
\* caller, shutdown included and calls that race with it included; a
\* caller whose closure shutdown threw away with the queue gets false.
EveryCallReturns ==
    /\ \A c \in CallerIds : InCall(c) ~> ~InCall(c)
    /\ [][\A c \in CallerIds :
              (callers[c].pc \in {"wait", "timedout"} /\ ~InCall(c)' /\ ~callers[c].done)
                  => callers'[c].result = "false"]_vars

\* The worker begins a connection attempt: a command's, or the reconnect
\* of its maintenance turn.
AttemptBegins == wk.pc = "idle" /\ wk'.pc = "resolve"

\* C37: clearPlayInterruptRequest runs right before every command body, so
\* a command never sees an interrupt requested before it began; and a
\* connection attempt, a command's or the maintenance turn's reconnect,
\* begins with the flag down when nobody raises it during the step: only
\* an interrupt raised while the attempt runs can abort it.
InterruptOnlyWhileRunning ==
    [][/\ (seen'.flip # seen.flip /\ seen'.cmd.op # "tick")
              => ~playInterruptRequested_'
       /\ AttemptBegins => ~playInterruptRequested_']_vars


\* ------------------------------------------ SpecFailed: starts that fail
\* Emitter 0 is tuned to a playlist, a station or the stream station and is
\* played, started, paused and skipped while the OS opens the file, fails to
\* open or play it, or refuses to resume; the worker advances the cursor.
\* Emitter 1 calls play() and start() with nothing selected.
FailedCalls ==
    {Call(CmdS("changePlaylist", "mix"), Calm), Call(CmdS("changePlaylist", "fm"), Calm),
     Call(CmdS("changePlaylist", "live"), Calm),
     Call(Cmd("pause", 0), Calm), Call(Cmd("forward", 0), Calm),
     Call(Cmd("play", 0), [Calm EXCEPT !.ctl = FALSE])}
        \cup {Call(Cmd("play", 0), o) : o \in FileOutcomes}
        \cup {Call(Cmd("start", 0), o) : o \in FileOutcomes}

FailedCallsFor(deviceId) ==
    IF deviceId = 0 THEN FailedCalls
    ELSE {Call(Cmd("play", 0), Calm), Call(Cmd("start", 0), Calm)}

NextFailed ==
    \/ Initialize
    \/ \E d \in Devices : \E c \in FailedCallsFor(d) : Command(d, c.cmd, c.o)
    \/ \E n \in 1..MaxCandidates : StreamResolved(n)
    \/ \E ok \in BOOLEAN : StreamMf(ok, "ok")
    \/ \E ok \in BOOLEAN : StreamDs(ok, "ok")
    \/ Complete
    \/ Tick(Calm)

SpecFailed == Constructed(IniConfig, Watching) /\ [][NextFailed]_vars

\* What C38 compares: the playback state, the mode, the cursor with
\* previousWasSong and the current track of a device.
previousWasSongOf(e, deviceId) ==
    IF deviceId = e.currentDeviceId_ THEN e.previousWasSong_
    ELSE IF deviceId \in DOMAIN e.deviceStates_
    THEN e.deviceStates_[deviceId].previousWasSong
    ELSE FALSE

PlaybackView(e, deviceId) ==
    [state |-> DeviceView(e, deviceId).state, mode |-> DeviceView(e, deviceId).mode,
     cursor |-> DeviceView(e, deviceId).cursor,
     previousWasSong |-> previousWasSongOf(e, deviceId),
     currentTrackPath |-> DeviceView(e, deviceId).currentTrackPath]

\* A step in which play() or start() ran to its end and returned false.
StartReturnedFalse ==
    (Called("play") \/ Called("start")) /\ seen'.ret = "false"

\* The end of a connection attempt that play() or start() began, failed.
StreamStartReturnedFalse ==
    /\ wk.pc \in {"resolve", "mf", "ds"}
    /\ wk'.pc = "finished" /\ wk'.ret = "false"
    /\ seen.cmd.op \in {"play", "start"}

\* C38 as stated: a play() or start() that returns false leaves the state,
\* the mode, the cursor and the current track of its device as they were.
FailedStartChangesNothing ==
    [][StartReturnedFalse =>
          PlaybackView(eng', target') = PlaybackView(eng, target')]_vars

\* C38: a play() or start() that returns false leaves its device as it was
\* when it fails before a file or a connection is opened; when the open
\* fails, the device is left Stopped without a current track, in the mode
\* asked for, with the cursor of the call (zero after start()).
FailedStartStopsOrChangesNothing ==
    [][/\ StartReturnedFalse =>
            \/ PlaybackView(eng', target') = PlaybackView(eng, target')
            \/ /\ seen'.open # "mci"
               /\ PlaybackView(eng', target').state = "Stopped"
               /\ PlaybackView(eng', target').currentTrackPath = NoPath
               /\ PlaybackView(eng', target').mode =
                      (IF Chan(Entered).type = "Station" THEN "Station" ELSE "Playlist")
               /\ PlaybackView(eng', target').cursor =
                      (IF seen'.cmd.op = "start" THEN <<0, 0, 0, 0>>
                       ELSE PlaybackView(eng, target').cursor)
       /\ StreamStartReturnedFalse =>
            /\ eng'.state_ = "Stopped"
            /\ eng'.currentTrackPath_ = NoPath]_vars

FailedStartStopsOrChangesNothingWitness ==
    /\ seen.cmd.op = "start" /\ seen.ret = "false" /\ seen.was = "Playing"
    /\ seen.open = "none"
    /\ eng.state_ = "Stopped" /\ eng.currentTrackPath_ = NoPath
    /\ eng.mode_ = "Station"


\* The devices C39 speaks of: those whose selected channel is in the catalog,
\* is no stream and has songs.
HasSongs(deviceId) ==
    /\ DeviceView(eng, deviceId).selectedKey \in DOMAIN eng.channels_
    /\ ~eng.channels_[DeviceView(eng, deviceId).selectedKey].isStream
    /\ Len(eng.channels_[DeviceView(eng, deviceId).selectedKey].songs) > 0

SongsOf(deviceId) == eng.channels_[DeviceView(eng, deviceId).selectedKey].songs

songIndexOf(deviceId) == DeviceView(eng, deviceId).cursor[1]

\* C39 as stated: the songIndex of a device on a channel with songs is
\* always below the number of songs.
SongIndexValid ==
    \A d \in Devices : HasSongs(d) => songIndexOf(d) < Len(SongsOf(d))

\* A playlist played to its end with loopPlaylist off: the cursor stands
\* after the last song, the device is Stopped and has no track.
Exhausted(deviceId) ==
    /\ songIndexOf(deviceId) = Len(SongsOf(deviceId))
    /\ ~config_.loopPlaylist
    /\ eng.channels_[DeviceView(eng, deviceId).selectedKey].type = "Playlist"
    /\ DeviceView(eng, deviceId).state = "Stopped"
    /\ DeviceView(eng, deviceId).currentTrackPath = NoPath

\* play() on a Stopped device whose channel has songs.
PlayOnStopped ==
    /\ Called("play")
    /\ Entered.state_ = "Stopped" /\ HasChan(Entered) /\ ~Chan(Entered).isStream
    /\ Len(Chan(Entered).songs) > 0

\* C39: on a channel with songs the songIndex is a valid index, or it is the
\* number of songs on a playlist played to its end with loopPlaylist off;
\* play() on a Stopped device starts the song at a valid index and, with
\* the cursor after the last song, returns false and changes nothing.
SongIndexValidOrExhausted ==
    /\ [](\A d \in Devices :
             HasSongs(d) => songIndexOf(d) < Len(SongsOf(d)) \/ Exhausted(d))
    /\ [][PlayOnStopped =>
             IF Entered.songIndex_ < Len(Chan(Entered).songs)
             THEN /\ seen'.ret = "true"
                  /\ eng'.currentTrackPath_ = Chan(Entered).songs[Entered.songIndex_ + 1]
             ELSE /\ seen'.ret = "false"
                  /\ PlaybackView(eng', target') = PlaybackView(eng, target')]_vars

SongIndexValidOrExhaustedWitness ==
    /\ seen.cmd.op = "play" /\ seen.ret = "false" /\ seen.was = "Stopped"
    /\ HasSongs(eng.currentDeviceId_) /\ Exhausted(eng.currentDeviceId_)


\* C40: while a device is Playing on an open handle, the levels the engine
\* remembers (lastLeftVolume_, lastRightVolume_) are the levels set on that
\* handle: every start writes the computed fade level to the handle it has
\* opened (osVolume is <<-1, -1>> on a handle nothing was written to).
FadeLevelOnLiveHandle ==
    (eng.state_ = "Playing" /\ eng.osHandle # "none" /\ wk.pc = "idle")
        => eng.osVolume = <<eng.lastLeftVolume_, eng.lastRightVolume_>>

====
